---- MODULE Spec2Model ----
(***************************************************************************)
(* PoseSandbox: the mode state machine, the world of joints and props,     *)
(* selection and picking, pose serialisation / application, the pose pack  *)
(* import and the thumbnail gallery, as state machines translated from the *)
(* JavaScript sources.                                                     *)
(***************************************************************************)
EXTENDS Integers, Sequences, FiniteSets, TLC

VARIABLES
  \* ---- ModesController (controls/Modes.js) and its two collaborators
  mode,          \* this.state.mode
  axis,          \* this.state.axis : [x, y, z -> BOOLEAN]
  snapDeg,       \* this.state.snapDeg, in degrees
  gizmoEnabled,  \* gizmo.enabled
  gizmoMode,     \* gizmo.mode, set by gizmo.setMode
  gizmoShow,     \* gizmo.showX / showY / showZ
  rotationSnap,  \* gizmo.rotationSnap : <<>> for null, <<milliradians>> otherwise
  orbitEnabled,  \* orbit.enabled
  dragging,      \* the gizmo's drag state (TransformControls.dragging)
  \* ---- World (core/world.js), the scene and the notes field
  jointQ,        \* world.joints[*].quaternion, by joint name
  joints,        \* world.joints : the joint groups (by name) in creation order
  props,         \* world.props : sequence of prop nodes (node ids)
  scene,         \* the prop nodes that are children of the scene
  node,          \* the prop nodes' fields, by node id
  notes,         \* poseNotesEl.value
  \* ---- the last pose operation: what it was given and what it returned
  lastOp,        \* its name, "<name>:throw" when it threw
  before,        \* the World it started from
  arg,           \* the pose document it was given
  argDeps,       \* the collaborators (deps) it was given
  ret,           \* its return value (0 when it returns nothing)
  \* ---- SelectionController (controls/Selection.js) and what it reads
  selected,       \* this.selected : a node of the scene graph, NoRef for null
  attached,       \* the node the gizmo is attached to, NoRef when detached
  outlineVisible, \* this.outline.visible
  nameField,      \* the selection-name input's value
  showOutline,    \* STATE.showOutline
  helpOpen,       \* the help modal is shown (no "hidden" class)
  \* ---- PresetsUI (poses/presets.js)
  presetSel,      \* this.selectedId as the preset's number, 0 for null
  \* ---- Gallery (gallery/Gallery.js) and the storage it persists to
  items,         \* this.items, newest first
  selectedId,    \* this.selectedId, 0 for null
  storage,       \* what localStorage holds under the gallery key
  containerEl,   \* whether the gallery was given an element to render into
  clock,         \* Date.now()
  saves,         \* number of items created so far (uid() gives a new id each time)
  \* ---- importPosePack (poses/pose-io.js): the call in flight
  imp,           \* its files, deps, position, count and what its promise gave
  \* ---- InputManager (controls/input.js)
  inp,           \* pointer, keys, the listener registry and the last dispatch
  \* ---- the app's shared STATE (core/state.js), as far as the modes go
  State,         \* STATE.mode, STATE.axis and STATE.snapDeg
  \* ---- the render loop (engine/loop.js)
  loop,          \* running, raf, and the frame callbacks the browser holds
  \* ---- the notification sink
  lastToast,     \* text of the last notification of the last handler, "" if none
  toastN         \* number of notifications the last handler sent

modesVars == <<mode, axis, snapDeg, gizmoEnabled, gizmoMode, gizmoShow,
               rotationSnap, orbitEnabled, dragging>>
toastVars == <<lastToast, toastN>>
worldVars == <<jointQ, joints, props, scene, node, notes>>
callVars == <<lastOp, before, arg, argDeps, ret>>
galleryVars == <<items, selectedId, storage, clock, saves, containerEl>>
selVars == <<selected, attached, outlineVisible, nameField>>
uiVars == <<showOutline, helpOpen, presetSel>>
impVars == <<imp>>
inputVars == <<inp>>
stateVars == <<State>>
loopVars == <<loop>>
shellVars == <<stateVars, loopVars>>

vars == <<modesVars, toastVars, worldVars, callVars, galleryVars, selVars, uiVars,
          impVars, inputVars, shellVars>>

\* What the operations of one component leave alone.
notModes == <<worldVars, callVars, galleryVars, selVars, uiVars, impVars, inputVars, shellVars>>
notWorld == <<modesVars, galleryVars, selVars, uiVars, impVars, inputVars, shellVars>>

(***************************************************************************)
(* Notification sink                                                       *)
(***************************************************************************)
\* showToast(msg, ms): what the handler that ran last sent to the sink
Toast(msg) ==
  /\ lastToast' = msg
  /\ toastN' = 1

NoToast ==
  /\ lastToast' = ""
  /\ toastN' = 0

InitToast ==
  /\ lastToast = ""
  /\ toastN = 0

(***************************************************************************)
(* ModesController                                                         *)
(***************************************************************************)
Modes == {"rotate", "move", "orbit"}
AxisKeys == {"x", "y", "z"}

\* Values a caller can pass where a mode, an axis key or a shortcut key is
\* expected: the valid ones and one that is not.
ModeInputs == Modes \cup {"scale"}
AxisInputs == AxisKeys \cup {"w"}
ShortcutInputs == {"1", "2", "3", "4"}

\* The result of Number(deg): a finite number, or not finite (NaN, Infinity).
Finite(k) == [fin |-> TRUE, n |-> k]
NotFinite == [fin |-> FALSE, n |-> 0]
SnapInputs == {Finite(-5), Finite(0), Finite(5), Finite(10), NotFinite}

\* _degToRad(d) = d * PI / 180, in milliradians.
degToRad(d) == (d * 3141593) \div 180000

\* applyState(): the gizmo and orbit flags as functions of the state.
ApplyGizmoEnabledBug(m) == TRUE
ApplyGizmoEnabled(m) == m # "orbit"

ApplyGizmoMode(m) == IF m = "move" THEN "translate" ELSE "rotate"

ApplyRotationSnapAnyMode(m, deg) ==
  IF deg > 0 THEN <<degToRad(deg)>> ELSE <<>>
ApplyRotationSnap(m, deg) ==
  IF m = "rotate" /\ deg > 0 THEN <<degToRad(deg)>> ELSE <<>>

ApplyOrbitEnabled(m) == m = "orbit"

applyStateStaleAxes(m, ax, deg) ==
  /\ gizmoEnabled' = ApplyGizmoEnabled(m)
  /\ gizmoMode' = ApplyGizmoMode(m)
  /\ gizmoShow' = gizmoShow
  /\ rotationSnap' = ApplyRotationSnap(m, deg)
  /\ orbitEnabled' = ApplyOrbitEnabled(m)
applyState(m, ax, deg) ==
  /\ gizmoEnabled' = ApplyGizmoEnabled(m)
  /\ gizmoMode' = ApplyGizmoMode(m)
  /\ gizmoShow' = ax
  /\ rotationSnap' = ApplyRotationSnap(m, deg)
  /\ orbitEnabled' = ApplyOrbitEnabled(m)

InitModes ==
  /\ mode = "rotate"
  /\ axis = [k \in AxisKeys |-> TRUE]
  /\ snapDeg = 10
  /\ gizmoEnabled = ApplyGizmoEnabled("rotate")
  /\ gizmoMode = ApplyGizmoMode("rotate")
  /\ gizmoShow = [k \in AxisKeys |-> TRUE]
  /\ rotationSnap = ApplyRotationSnap("rotate", 10)
  /\ orbitEnabled = ApplyOrbitEnabled("rotate")
  /\ dragging = FALSE

ModeToast(m) ==
  IF m = "rotate" THEN "Rotate mode"
  ELSE IF m = "move" THEN "Move mode" ELSE "Orbit mode"

\* setMode(mode)
setModeUnchecked(m) ==
  /\ mode' = m
  /\ applyState(m, axis, snapDeg)
  /\ Toast(ModeToast(m))
  /\ UNCHANGED <<axis, snapDeg, dragging>>
setMode(m) ==
  IF m \notin Modes
  THEN UNCHANGED modesVars /\ NoToast
  ELSE /\ mode' = m
       /\ applyState(m, axis, snapDeg)
       /\ Toast(ModeToast(m))
       /\ UNCHANGED <<axis, snapDeg, dragging>>

SetMode ==
  /\ \E m \in ModeInputs : setMode(m)
  /\ UNCHANGED notModes

\* handleShortcut(keyLower)
handleShortcut(k) ==
  IF k = "1" THEN setMode("rotate")
  ELSE IF k = "2" THEN setMode("move")
  ELSE IF k = "3" THEN setMode("orbit")
  ELSE UNCHANGED modesVars /\ NoToast

HandleShortcut ==
  /\ \E k \in ShortcutInputs : handleShortcut(k)
  /\ UNCHANGED notModes

\* toggleAxis(key)
toggleAxis(k) ==
  IF k \notin AxisKeys
  THEN UNCHANGED modesVars /\ NoToast
  ELSE /\ axis' = [axis EXCEPT ![k] = ~axis[k]]
       /\ applyState(mode, axis', snapDeg)
       /\ NoToast
       /\ UNCHANGED <<mode, snapDeg, dragging>>

ToggleAxis ==
  /\ \E k \in AxisInputs : toggleAxis(k)
  /\ UNCHANGED notModes

\* setSnapDeg(deg): n = Number(deg); snapDeg = isFinite(n) ? n : 0
setSnapDeg(v) ==
  /\ snapDeg' = IF v.fin THEN v.n ELSE 0
  /\ applyState(mode, axis, snapDeg')
  /\ NoToast
  /\ UNCHANGED <<mode, axis, dragging>>

SetSnapDeg ==
  /\ \E v \in SnapInputs : setSnapDeg(v)
  /\ UNCHANGED notModes

\* The gizmo's "dragging-changed" listener bound in _bindUI, value = true.
\* TransformControls starts a drag only while it is enabled and not dragging.
DragStart ==
  /\ gizmoEnabled
  /\ ~dragging
  /\ dragging' = TRUE
  /\ orbitEnabled' = FALSE
  /\ Toast(IF mode = "move" THEN "Moving" ELSE "Rotating")
  /\ UNCHANGED <<mode, axis, snapDeg, gizmoEnabled, gizmoMode, gizmoShow, rotationSnap>>
  /\ UNCHANGED notModes

\* The same listener, value = false.
DragEnd ==
  /\ dragging
  /\ dragging' = FALSE
  /\ orbitEnabled' = (mode = "orbit")
  /\ NoToast
  /\ UNCHANGED <<mode, axis, snapDeg, gizmoEnabled, gizmoMode, gizmoShow, rotationSnap>>
  /\ UNCHANGED notModes

NextModes ==
  \/ SetMode
  \/ HandleShortcut
  \/ ToggleAxis
  \/ SetSnapDeg
  \/ DragStart
  \/ DragEnd

(***************************************************************************)
(* The app's shared STATE and the wrappers that sync it (app.js)           *)
(***************************************************************************)
\* STATE.mode, STATE.axis and STATE.snapDeg are set from modes.state once
\* the controller is built
InitShared == State = [mode |-> mode, axis |-> axis, snapDeg |-> snapDeg]

notShared == <<worldVars, callVars, galleryVars, selVars, uiVars, impVars, inputVars, loopVars>>

\* modes.setMode as the app replaces it on the instance
appSetModeNoSync(m) ==
  /\ setMode(m)
  /\ UNCHANGED State
appSetMode(m) ==
  /\ setMode(m)
  /\ State' = [State EXCEPT !.mode = mode']

\* modes.toggleAxis as the app replaces it
appToggleAxis(k) ==
  /\ toggleAxis(k)
  /\ State' = [State EXCEPT !.axis = [a \in AxisKeys |-> axis'[a]]]

\* modes.setSnapDeg as the app replaces it
appSetSnapDeg(v) ==
  /\ setSnapDeg(v)
  /\ State' = [State EXCEPT !.snapDeg = snapDeg']

\* A click on a mode button: the listener of _bindUI calls this.setMode,
\* which is the instance's own property, the app's wrapper
ModeButton ==
  /\ \E m \in Modes : appSetMode(m)
  /\ UNCHANGED notShared

\* A click on an axis chip
AxisChip ==
  /\ \E k \in AxisKeys : appToggleAxis(k)
  /\ UNCHANGED notShared

\* A change of the snap selector: Number(value || 0), then this.setSnapDeg
SnapSelect ==
  /\ \E v \in SnapInputs : appSetSnapDeg(v)
  /\ UNCHANGED notShared

\* The app's keydown listener for 1/2/3: modes.handleShortcut(k), whose
\* this.setMode is the wrapper
ShortcutKey ==
  /\ \E k \in {"1", "2", "3"} :
       appSetMode(IF k = "1" THEN "rotate" ELSE IF k = "2" THEN "move" ELSE "orbit")
  /\ UNCHANGED notShared

\* "dragging-changed" with value = true: the listener of createScene, which
\* reads STATE.mode, then the listener of _bindUI, which reads state.mode;
\* each sets orbit.enabled and notifies
AppDragStart ==
  /\ gizmoEnabled
  /\ ~dragging
  /\ dragging' = TRUE
  /\ orbitEnabled' = FALSE
  /\ lastToast' = (IF mode = "move" THEN "Moving" ELSE "Rotating")
  /\ toastN' = 2
  /\ UNCHANGED <<mode, axis, snapDeg, gizmoEnabled, gizmoMode, gizmoShow, rotationSnap>>
  /\ UNCHANGED <<State, notShared>>

\* The same two listeners with value = false: the later one's value stays
AppDragEnd ==
  /\ dragging
  /\ dragging' = FALSE
  /\ orbitEnabled' = (mode = "orbit")
  /\ NoToast
  /\ UNCHANGED <<mode, axis, snapDeg, gizmoEnabled, gizmoMode, gizmoShow, rotationSnap>>
  /\ UNCHANGED <<State, notShared>>

NextShared ==
  \/ ModeButton
  \/ AxisChip
  \/ SnapSelect
  \/ ShortcutKey
  \/ AppDragStart
  \/ AppDragEnd

(***************************************************************************)
(* Values: quaternions, vectors, names                                     *)
(***************************************************************************)
\* Quaternion.toArray() gives [x, y, z, w]; a quaternion is kept as that tuple.
QId == <<0, 0, 0, 1>>
QA == <<1, 0, 0, 0>>
QB == <<0, 1, 0, 0>>
\* rotation.x = -PI/2 (the tilt of the flat prop types), as a quaternion
QTilt == <<-1, 0, 0, 1>>

V0 == <<0, 0, 0>>
V1 == <<1, 0, 1>>
Positions == {V0, V1}
S1 == <<1, 1, 1>>
S2 == <<2, 2, 2>>

\* A name is a plain text, or the template `prop_${type}_${n}` (n > 0).
PlainName(text) == [text |-> text, type |-> "", n |-> 0]
SpawnName(t, k) == [text |-> "prop_", type |-> t, n |-> k]
NoName == PlainName("")
NameTruthy(nm) == nm.n > 0 \/ nm.text # ""

\* String(name).toLowerCase().includes("cube")
CubeTexts == {"cube", "Big Cube"}
NameHasCube(nm) ==
  IF nm.n > 0 THEN nm.type \in CubeTexts ELSE nm.text \in CubeTexts

Range(f) == {f[i] : i \in DOMAIN f}

(***************************************************************************)
(* World: joints (character/Character.js build) and props (core/world.js)  *)
(***************************************************************************)
\* The joints of the built character, in creation order.
JointOrder ==
  <<"char_root", "hips", "chest", "neck", "l_shoulder", "r_shoulder",
    "l_elbow", "r_elbow", "l_hip", "r_hip", "l_knee", "r_knee">>
JointNames == Range(JointOrder)

\* Bounds of the model: prop nodes alive at once, entries of world.props,
\* and the number of joints (the first ones, in creation order) that the
\* inputs of the model rotate.
MaxNodes == 3
MaxProps == 3
MaxPosed == 2

NodeIds == 1..MaxNodes
PosedJoints == {JointOrder[i] : i \in 1..MaxPosed}

PROP_TYPES ==
  {"cube", "sphere", "cylinder", "cone", "pyramid", "torus", "ring", "disc",
   "icosa", "octa", "dodeca", "tetra", "plane"}

\* Type arguments the model passes: three of the enumeration, one outside
\* it, and a falsy one.
TypeInputs == {"cube", "sphere", "ring", "blob", ""}

\* A node id not in use.
NoNode ==
  [isProp |-> FALSE, type |-> "", name |-> NoName,
   position |-> V0, quaternion |-> QId, scale |-> S1]

\* createPropGroup(type, opts): t = String(type || "cube").toLowerCase()
createPropGroup(type, optName) ==
  LET t == IF type = "" THEN "cube" ELSE type
  IN [isProp |-> TRUE,
      type |-> t,
      name |-> IF NameTruthy(optName) THEN optName ELSE PlainName(t),
      position |-> V0,
      quaternion |-> IF t \in {"plane", "ring", "disc"} THEN QTilt ELSE QId,
      scale |-> S1]

\* The world and scene as one value: W.jointQ, W.props, W.scene, W.node, W.notes
World == [jointQ |-> jointQ, joints |-> joints, props |-> props, scene |-> scene, node |-> node,
          notes |-> notes]

IndexOf(sq, x) ==
  IF x \in Range(sq)
  THEN CHOOSE i \in 1..Len(sq) : sq[i] = x /\ \A j \in 1..(i - 1) : sq[j] # x
  ELSE 0

RemoveAt(sq, i) == [j \in 1..(Len(sq) - 1) |-> IF j < i THEN sq[j] ELSE sq[j + 1]]

\* Node ids referenced by the world or the scene, or kept alive elsewhere.
UsedIds(w, keep) == Range(w.props) \cup w.scene \cup keep
FreeIds(w, keep) == NodeIds \ UsedIds(w, keep)
FreshId(w, keep) == CHOOSE i \in FreeIds(w, keep) : \A j \in FreeIds(w, keep) : i <= j

\* Nodes nothing refers to any more are forgotten (garbage).
Collect(w, keep) ==
  [w EXCEPT !.node = [i \in NodeIds |-> IF i \in UsedIds(w, keep) THEN w.node[i] ELSE NoNode]]

\* registerProp(world, scene, prop); sc: a scene is passed
registerProp(w, sc, p) ==
  [w EXCEPT !.props = Append(@, p),
            !.scene = IF sc THEN @ \cup {p} ELSE @]

\* addProp(world, scene, type, opts) = registerProp(createPropGroup(type, opts)),
\* the new node taking the id p
addProp(w, sc, type, optName, p) ==
  registerProp([w EXCEPT !.node[p] = createPropGroup(type, optName)], sc, p)

\* removeProp(world, scene, prop)
removeProp(w, sc, p) ==
  LET idx == IndexOf(w.props, p)
  IN [w EXCEPT !.props = IF idx >= 1 THEN RemoveAt(@, idx) ELSE @,
               !.scene = IF sc THEN @ \ {p} ELSE @]

\* clearProps(world, scene)
clearProps(w, sc) ==
  [w EXCEPT !.scene = IF sc THEN @ \ Range(w.props) ELSE @,
            !.props = <<>>]

\* resetWorld(world): world.root.clear(), world.joints.length = 0,
\* world.props.length = 0; the function is not given the scene
resetWorld(w) == [w EXCEPT !.joints = <<>>, !.props = <<>>]

\* resetAllJointRotations(world) / Character.resetAllJointRotations()
resetAllJointRotations(w) == [w EXCEPT !.jointQ = [n \in JointNames |-> QId]]

SetWorld(w) ==
  /\ jointQ' = w.jointQ
  /\ joints' = w.joints
  /\ props' = w.props
  /\ scene' = w.scene
  /\ node' = w.node
  /\ notes' = w.notes

\* createWorld(), the character built, an empty scene, empty notes
InitWorld ==
  /\ jointQ = [n \in JointNames |-> QId]
  /\ joints = JointOrder
  /\ props = <<>>
  /\ scene = {}
  /\ node = [i \in NodeIds |-> NoNode]
  /\ notes = ""

\* Operations whose result a claim inspects (the pose operations, a pick)
\* are checked call by call: a run sets a world up, makes one such call, and
\* the call's arguments and result stay recorded.
Setup == lastOp = "none"

\* ---- the world operations called on their own, with the scene passed
AddProp ==
  \E t \in TypeInputs :
    /\ Setup
    /\ Len(props) < MaxProps
    /\ FreeIds(World, {}) # {}
    /\ SetWorld(addProp(World, TRUE, t, NoName, FreshId(World, {})))
    /\ NoToast
    /\ UNCHANGED <<notWorld, callVars>>

\* registerProp with a group just created, or with one the caller already
\* registered
RegisterProp ==
  /\ Setup
  /\ Len(props) < MaxProps
  /\ \/ \E t \in TypeInputs :
          /\ FreeIds(World, {}) # {}
          /\ LET p == FreshId(World, {})
             IN SetWorld(registerProp([World EXCEPT !.node[p] = createPropGroup(t, NoName)],
                                      TRUE, p))
     \/ \E p \in UsedIds(World, {}) : SetWorld(registerProp(World, TRUE, p))
  /\ NoToast
  /\ UNCHANGED <<notWorld, callVars>>

RemoveProp ==
  /\ Setup
  /\ \E p \in UsedIds(World, {}) : SetWorld(Collect(removeProp(World, TRUE, p), {}))
  /\ NoToast
  /\ UNCHANGED <<notWorld, callVars>>

ClearProps ==
  /\ Setup
  /\ SetWorld(Collect(clearProps(World, TRUE), {}))
  /\ NoToast
  /\ UNCHANGED <<notWorld, callVars>>

\* resetWorld(world) ends the run: its caller is to rebuild the character
ResetWorld ==
  /\ Setup
  /\ SetWorld(resetWorld(World))
  /\ lastOp' = "resetWorld"
  /\ before' = World
  /\ NoToast
  /\ UNCHANGED <<arg, argDeps, ret, notWorld>>

NextWorld ==
  \/ AddProp
  \/ RegisterProp
  \/ RemoveProp

(***************************************************************************)
(* Pose documents (poses/pose-io.js)                                       *)
(***************************************************************************)
\* A JSON value found where a quaternion array is expected.
Arr(v) == [arr |-> TRUE, v |-> v]
NotArr == [arr |-> FALSE, v |-> <<>>]

\* Quaternion.toArray() and Quaternion.fromArray(a)
toArray(q) == Arr(<<q[1], q[2], q[3], q[4]>>)
fromArray(a) == <<a.v[1], a.v[2], a.v[3], a.v[4]>>

\* Array.isArray(q) && q.length === 4
IsQuatArray(a) == a.arr /\ Len(a.v) = 4

\* One entry of data.props: null, or an object whose name, position,
\* quaternion and scale may each be missing (<<>>) or present (<<value>>).
NullEntry == [nul |-> TRUE, name |-> NoName, position |-> <<>>, quaternion |-> <<>>,
              scale |-> <<>>]
Entry(nm, pos, q, sc) ==
  [nul |-> FALSE, name |-> nm, position |-> pos, quaternion |-> q, scale |-> sc]

\* A parsed pose document. obj: data is an object; hasJoints: data.joints is
\* an object, with the map joints; hasProps: data.props is an array;
\* notes: <<>> when data.notes is not a string.
Doc(js, hasP, ps, nt) ==
  [obj |-> TRUE, version |-> 1, hasJoints |-> TRUE, joints |-> js,
   hasProps |-> hasP, props |-> ps, notes |-> nt, savedAt |-> 0]
DocNoJoints(hasP, ps, nt) ==
  [obj |-> TRUE, version |-> 1, hasJoints |-> FALSE, joints |-> <<>>,
   hasProps |-> hasP, props |-> ps, notes |-> nt, savedAt |-> 0]
NotAnObject ==
  [obj |-> FALSE, version |-> 0, hasJoints |-> FALSE, joints |-> <<>>,
   hasProps |-> FALSE, props |-> <<>>, notes |-> <<>>, savedAt |-> 0]

\* data.joints[name]: the entry, or undefined (NotArr)
JointEntry(data, nm) == IF nm \in DOMAIN data.joints THEN data.joints[nm] ELSE NotArr

\* The collaborators a caller passes as deps.
Deps(wl, sn, ap, rs) ==
  [world |-> wl, scene |-> sn, addProp |-> ap, resetAllJointRotations |-> rs,
   poseNotesEl |-> TRUE, showToast |-> TRUE, updateOutline |-> TRUE]
\* app.js applyPoseToScene / applyPoseJointsOnlyToScene
AppDeps == Deps(TRUE, TRUE, TRUE, TRUE)

\* What a pose operation did: the world it left, whether it threw, its
\* return value, the notifications it sent and whether it got as far as
\* refreshing the outline. full: the model ran out of node ids.
Outcome(w, th, r, ts, ol) ==
  [w |-> w, thrown |-> th, ret |-> r, toasts |-> ts, outline |-> ol, full |-> FALSE]
OutOfIds(w) ==
  [w |-> w, thrown |-> FALSE, ret |-> 0, toasts |-> <<>>, outline |-> FALSE, full |-> TRUE]

\* serializePose({ world, poseNotesEl }), savedAt = now
serializePose(w, now) ==
  [obj |-> TRUE,
   version |-> 1,
   hasJoints |-> TRUE,
   joints |-> [j \in JointNames |-> toArray(w.jointQ[j])],
   hasProps |-> TRUE,
   props |-> [i \in 1..Len(w.props) |->
                Entry(w.node[w.props[i]].name,
                      <<w.node[w.props[i]].position>>,
                      <<w.node[w.props[i]].quaternion>>,
                      <<w.node[w.props[i]].scale>>)],
   notes |-> <<w.notes>>,
   savedAt |-> now]

\* applyPose, "Apply joints": one joint
ApplyJointAlways(w, data, nm) ==
  IF IsQuatArray(JointEntry(data, nm)) THEN fromArray(JointEntry(data, nm)) ELSE QId
ApplyJoint(w, data, nm) ==
  IF IsQuatArray(JointEntry(data, nm)) THEN fromArray(JointEntry(data, nm)) ELSE w.jointQ[nm]

ApplyJoints(w, data) ==
  [w EXCEPT !.jointQ = [nm \in JointNames |-> ApplyJoint(w, data, nm)]]

\* app.js spawnProp(type): addProp of core/world.js with the name
\* prop_<type>_<n>, then a random position rnd
spawnProp(w, type, rnd, p) ==
  LET t == IF type = "" THEN "cube" ELSE type
      w1 == addProp(w, TRUE, t, SpawnName(t, Len(w.props) + 1), p)
  IN [w1 EXCEPT !.node[p].position = rnd]

\* The fields of the new prop overwritten from the entry pd
OverwriteFromEntryNoScale(nd, pd) ==
  [nd EXCEPT !.position = IF pd.position # <<>> THEN pd.position[1] ELSE @,
             !.quaternion = IF pd.quaternion # <<>> THEN pd.quaternion[1] ELSE @,
             !.name = IF NameTruthy(pd.name) THEN pd.name ELSE @]
OverwriteFromEntry(nd, pd) ==
  [nd EXCEPT !.position = IF pd.position # <<>> THEN pd.position[1] ELSE @,
             !.quaternion = IF pd.quaternion # <<>> THEN pd.quaternion[1] ELSE @,
             !.scale = IF pd.scale # <<>> THEN pd.scale[1] ELSE @,
             !.name = IF NameTruthy(pd.name) THEN pd.name ELSE @]

\* applyPose, "add new": the entries from index i on; r = [w, thrown, full].
\* An entry that is null makes pd.position throw after the prop was added.
RECURSIVE AddNewProps(_, _, _, _, _, _)
AddNewProps(r, entries, i, deps, keep, rnd) ==
  IF i > Len(entries) \/ r.thrown \/ r.full THEN r
  ELSE IF ~deps.addProp THEN AddNewProps(r, entries, i + 1, deps, keep, rnd)
  ELSE IF FreeIds(r.w, keep) = {} \/ Len(r.w.props) >= MaxProps
       THEN [r EXCEPT !.full = TRUE]
  ELSE LET pd == entries[i]
           p == FreshId(r.w, keep)
           isCube == ~pd.nul /\ NameHasCube(pd.name)
           w1 == spawnProp(r.w, IF isCube THEN "cube" ELSE "sphere", rnd, p)
       IN IF pd.nul
          THEN [r EXCEPT !.w = w1, !.thrown = TRUE]
          ELSE AddNewProps([r EXCEPT !.w = [w1 EXCEPT !.node[p] = OverwriteFromEntry(@, pd)]],
                           entries, i + 1, deps, keep, rnd)

\* applyPose, "remove old": scene.remove of every prop, world.props.length = 0
RemoveOldProps(w) == [w EXCEPT !.scene = @ \ Range(w.props), !.props = <<>>]

\* applyPose(data, deps)
applyPoseChecksLate(data, deps, w, keep, rnd) ==
  LET w1 == IF data.obj /\ data.hasJoints THEN ApplyJoints(w, data) ELSE w
  IN IF ~data.obj \/ ~deps.world \/ ~deps.scene
     THEN Outcome(w1, TRUE, 0, <<>>, FALSE)
     ELSE Outcome(w1, FALSE, 0, <<>>, FALSE)
applyPose(data, deps, w, keep, rnd) ==
  IF ~data.obj \/ ~deps.world \/ ~deps.scene
  THEN Outcome(w, TRUE, 0, <<>>, FALSE)
  ELSE LET w1 == IF data.hasJoints THEN ApplyJoints(w, data) ELSE w
           r2 == IF data.hasProps
                 THEN AddNewProps([w |-> RemoveOldProps(w1), thrown |-> FALSE, full |-> FALSE],
                                  data.props, 1, deps, keep, rnd)
                 ELSE [w |-> w1, thrown |-> FALSE, full |-> FALSE]
           w3 == IF deps.poseNotesEl /\ data.notes # <<>>
                 THEN [r2.w EXCEPT !.notes = data.notes[1]] ELSE r2.w
       IN IF r2.full THEN OutOfIds(w)
          ELSE IF r2.thrown THEN Outcome(Collect(r2.w, keep), TRUE, 0, <<>>, FALSE)
          ELSE Outcome(Collect(w3, keep), FALSE, 0,
                       IF deps.showToast THEN <<"Pose loaded">> ELSE <<>>,
                       deps.updateOutline)

\* The number of world joints with a length-4 array in data.joints
AppliedCount(data) == Cardinality({nm \in JointNames : IsQuatArray(JointEntry(data, nm))})

\* applyPoseJointsOnly, "reset first": only when the collaborator is passed
ResetFirstNever(w, deps) == w
ResetFirst(w, deps) ==
  IF deps.resetAllJointRotations THEN resetAllJointRotations(w) ELSE w

\* applyPoseJointsOnly(data, deps)
applyPoseJointsOnly(data, deps, w) ==
  IF ~data.obj \/ ~data.hasJoints \/ ~deps.world
  THEN Outcome(w, TRUE, 0, <<>>, FALSE)
  ELSE Outcome(ApplyJoints(ResetFirst(w, deps), data), FALSE, AppliedCount(data),
               IF ~deps.showToast THEN <<>>
               ELSE IF AppliedCount(data) = 0
                    THEN <<"Preset loaded (no matching joints)">>
                    ELSE <<"Preset loaded (n joints)">>,
               deps.updateOutline)

(***************************************************************************)
(* The pose operations on a world, as a caller of pose-io.js runs them     *)
(***************************************************************************)
\* Names a document may use: the first and the last joint the model rotates
\* and one name that is no joint of the world.
DocNames == {JointOrder[1], JointOrder[MaxPosed], "ghost"}
JointValues == {Arr(QB), Arr(<<0, 0, 1>>)}
JointMaps ==
  UNION {[ns -> JointValues] : ns \in SUBSET DocNames}

EntryInputs ==
  {Entry(PlainName("Big Cube"), <<V1>>, <<QA>>, <<S2>>),
   Entry(PlainName("torus"), <<V0>>, <<QB>>, <<S1>>),
   Entry(NoName, <<>>, <<>>, <<>>),
   NullEntry}
PropsInputs ==
  {<<>>} \cup {<<e>> : e \in EntryInputs}
    \cup {<<e, f>> : e \in {Entry(PlainName("torus"), <<V0>>, <<QB>>, <<S1>>)}, f \in EntryInputs}

OneJoint == [n \in {JointOrder[1]} |-> Arr(QB)]
DocInputs ==
  {NotAnObject}
    \cup {Doc(js, FALSE, <<>>, <<>>) : js \in JointMaps}
    \cup {Doc(js, TRUE, ps, <<"doc notes">>) : js \in {<<>>, OneJoint}, ps \in PropsInputs}
    \cup {DocNoJoints(TRUE, ps, <<>>) : ps \in {<<>>, <<NullEntry>>}}
    \cup {DocNoJoints(FALSE, <<>>, <<"doc notes">>)}

DepsInputs ==
  {AppDeps, Deps(FALSE, TRUE, TRUE, TRUE), Deps(TRUE, FALSE, TRUE, TRUE),
   Deps(TRUE, TRUE, FALSE, TRUE), Deps(TRUE, TRUE, TRUE, FALSE)}

\* The calls made: every document with the collaborators app.js passes, and
\* a few documents with each collaborator left out in turn.
DepDocs ==
  {NotAnObject, Doc(OneJoint, FALSE, <<>>, <<>>),
   Doc(OneJoint, TRUE, <<Entry(PlainName("torus"), <<V0>>, <<QB>>, <<S1>>)>>, <<"doc notes">>)}
CallInputs == (DocInputs \X {AppDeps}) \cup (DepDocs \X DepsInputs)

InitCall ==
  /\ lastOp = "none"
  /\ before = <<>>
  /\ arg = NotAnObject
  /\ argDeps = AppDeps
  /\ ret = 0

Called(name, w, data, deps, out) ==
  /\ lastOp' = IF out.thrown THEN name \o ":throw" ELSE name
  /\ before' = w
  /\ arg' = data
  /\ argDeps' = deps
  /\ ret' = out.ret

\* The notifications ts sent in a row
Toasts(ts) ==
  /\ lastToast' = IF ts = <<>> THEN "" ELSE ts[Len(ts)]
  /\ toastN' = Len(ts)

\* Props spawned before the call
MaxPoseProps == 2

\* A joint is rotated (gizmo drag on a joint, app.js randomPose)
PoseJoint ==
  /\ Setup
  /\ \E nm \in PosedJoints, q \in {QId, QA} : jointQ' = [jointQ EXCEPT ![nm] = q]
  /\ NoToast
  /\ UNCHANGED <<joints, props, scene, node, notes, notWorld, callVars>>

\* A prop is spawned (app.js spawnProp)
SpawnProp ==
  /\ Setup
  /\ \E t \in {"cube", "ring"}, rnd \in Positions :
       /\ Len(props) < MaxPoseProps
       /\ FreeIds(World, {}) # {}
       /\ SetWorld(spawnProp(World, t, rnd, FreshId(World, {})))
  /\ NoToast
  /\ UNCHANGED <<notWorld, callVars>>

\* A prop is moved, rotated or scaled (gizmo drag on a prop)
TransformProp ==
  /\ Setup
  /\ \E p \in Range(props) :
       node' = [node EXCEPT ![p].position = V1, ![p].quaternion = QA, ![p].scale = S2]
  /\ NoToast
  /\ UNCHANGED <<jointQ, joints, props, scene, notes, notWorld, callVars>>

\* The notes field is edited
EditNotes ==
  /\ Setup
  /\ \E t \in {"", "my notes"} : notes' = t
  /\ NoToast
  /\ UNCHANGED <<jointQ, joints, props, scene, node, notWorld, callVars>>

ApplyPose ==
  \E call \in CallInputs, rnd \in Positions :
    LET data == call[1]
        deps == call[2]
        out == applyPose(data, deps, World, {}, rnd)
    IN /\ Setup
       /\ ~out.full
       /\ SetWorld(out.w)
       /\ Called("applyPose", World, data, deps, out)
       /\ Toasts(out.toasts)
       /\ UNCHANGED notWorld

ApplyPoseJointsOnly ==
  \E call \in CallInputs :
    LET data == call[1]
        deps == call[2]
        out == applyPoseJointsOnly(data, deps, World)
    IN /\ Setup
       /\ SetWorld(out.w)
       /\ Called("applyPoseJointsOnly", World, data, deps, out)
       /\ Toasts(out.toasts)
       /\ UNCHANGED notWorld

\* applyPose while its caller still holds the props of the world it starts
\* from (the gallery thumbnails, the selection): the rebuilt props are new
\* nodes.  One more document: a null entry followed by a well-formed one.
RebuildInputs ==
  CallInputs
    \cup {<<Doc(<<>>, TRUE, <<NullEntry, Entry(PlainName("torus"), <<V0>>, <<QB>>, <<S1>>)>>,
                <<>>), AppDeps>>}

ApplyPoseRebuild ==
  \E call \in RebuildInputs, rnd \in Positions :
    LET data == call[1]
        deps == call[2]
        out == applyPose(data, deps, World, Range(props), rnd)
    IN /\ Setup
       /\ ~out.full
       /\ SetWorld(out.w)
       /\ Called("applyPose", World, data, deps, out)
       /\ Toasts(out.toasts)
       /\ UNCHANGED notWorld

\* applyPose(serializePose(world)) with nothing in between
RoundTrip ==
  \E rnd \in Positions :
    LET data == serializePose(World, 0)
        out == applyPose(data, AppDeps, World, {}, rnd)
    IN /\ Setup
       /\ ~out.full
       /\ SetWorld(out.w)
       /\ Called("roundTrip", World, data, AppDeps, out)
       /\ Toasts(out.toasts)
       /\ UNCHANGED notWorld

NextPose ==
  \/ PoseJoint
  \/ SpawnProp
  \/ TransformProp
  \/ EditNotes
  \/ ApplyPose
  \/ ApplyPoseJointsOnly
  \/ RoundTrip

NextRebuild ==
  \/ PoseJoint
  \/ SpawnProp
  \/ TransformProp
  \/ ApplyPoseRebuild

\* Every world operation that touches props, each prop registered once
NextLockstep ==
  \/ AddProp
  \/ SpawnProp
  \/ RemoveProp
  \/ ClearProps
  \/ ResetWorld
  \/ ApplyPose

(***************************************************************************)
(* Picking (controls/Selection.js pickFromPointer) over the scene graph    *)
(***************************************************************************)
\* A node of the scene graph: the scene, the character's holder group, a
\* joint group (by name), the box mesh added to a joint, a prop group (by
\* node id) or the mesh inside a prop group. NoRef is null.
Ref(k, j, p) == [k |-> k, j |-> j, p |-> p]
NoRef == Ref("none", "", 0)
SceneRef == Ref("scene", "", 0)
RootRef == Ref("root", "", 0)
JointRef(n) == Ref("joint", n, 0)
MeshRef(n) == Ref("mesh", n, 0)
PropRef(i) == Ref("prop", "", i)
PropMeshRef(i) == Ref("propmesh", "", i)

\* Character.build: the parent joint of each joint ("" for char_root, which
\* hangs under the holder group) and the joints that carry a box mesh.
JointParent ==
  [n \in JointNames |->
     CASE n = "char_root" -> ""
       [] n = "hips" -> "char_root"
       [] n \in {"chest", "l_hip", "r_hip"} -> "hips"
       [] n \in {"neck", "l_shoulder", "r_shoulder"} -> "chest"
       [] n = "l_elbow" -> "l_shoulder"
       [] n = "r_elbow" -> "r_shoulder"
       [] n = "l_knee" -> "l_hip"
       [] n = "r_knee" -> "r_hip"]
MeshJoints == JointNames \ {"char_root", "chest"}

\* o.parent
Parent(w, o) ==
  CASE o.k = "mesh" -> JointRef(o.j)
    [] o.k = "joint" -> IF JointParent[o.j] = "" THEN RootRef ELSE JointRef(JointParent[o.j])
    [] o.k = "root" -> SceneRef
    [] o.k = "propmesh" -> PropRef(o.p)
    [] o.k = "prop" -> IF o.p \in w.scene THEN SceneRef ELSE NoRef
    [] OTHER -> NoRef

\* o.userData.isJoint, o.userData.isProp
IsJoint(o) == o.k = "joint"
IsProp(w, o) == o.k = "prop" /\ w.node[o.p].isProp

\* The pickable meshes under world.root and under every member of world.props
Pickables(w) ==
  {MeshRef(n) : n \in MeshJoints} \cup {PropMeshRef(i) : i \in Range(w.props)}

\* while (o && o.parent) { ... o = o.parent } return hits[0].object
RECURSIVE Climb(_, _, _)
Climb(w, o, hit) ==
  IF o = NoRef \/ Parent(w, o) = NoRef THEN hit
  ELSE IF IsJoint(Parent(w, o)) THEN Parent(w, o)
  ELSE IF IsProp(w, o) THEN o
  ELSE Climb(w, Parent(w, o), hit)

\* pickFromPointer(ev), hit = hits[0].object, NoRef when the ray hits nothing
pickFromPointer(w, hit) == IF hit = NoRef THEN NoRef ELSE Climb(w, hit, hit)

\* One pick, recorded
Pick ==
  \E hit \in Pickables(World) \cup {NoRef} :
    /\ Setup
    /\ lastOp' = "pick"
    /\ before' = World
    /\ arg' = hit
    /\ ret' = pickFromPointer(World, hit)
    /\ NoToast
    /\ UNCHANGED <<argDeps, worldVars, notWorld>>

NextPick ==
  \/ AddProp
  \/ RegisterProp
  \/ RemoveProp
  \/ Pick

(***************************************************************************)
(* SelectionController (controls/Selection.js)                             *)
(***************************************************************************)
\* obj.name of a node
RefName(w, o) ==
  CASE o.k = "joint" -> PlainName(o.j)
    [] o.k = "mesh" -> PlainName(o.j \o "/mesh")
    [] o.k = "prop" -> w.node[o.p].name
    [] OTHER -> NoName

\* The controller's own state as one value
Sel == [selected |-> selected, attached |-> attached,
        outlineVisible |-> outlineVisible, nameField |-> nameField]

SetSel(sl) ==
  /\ selected' = sl.selected
  /\ attached' = sl.attached
  /\ outlineVisible' = sl.outlineVisible
  /\ nameField' = sl.nameField

\* _syncUI(): selected ? (selected.name || "(unnamed)") : "None"
syncUI(w, sl) ==
  [sl EXCEPT !.nameField =
     IF sl.selected = NoRef THEN PlainName("None")
     ELSE IF NameTruthy(RefName(w, sl.selected)) THEN RefName(w, sl.selected)
     ELSE PlainName("(unnamed)")]

\* updateOutline(), show = getShowOutline()
updateOutlineAnyFlag(sl, show) == [sl EXCEPT !.outlineVisible = sl.selected # NoRef]
updateOutline(sl, show) == [sl EXCEPT !.outlineVisible = show /\ sl.selected # NoRef]

\* setSelection(obj)
setSelectionKeepGizmo(w, sl, obj, show) ==
  IF obj = NoRef
  THEN [syncUI(w, [sl EXCEPT !.selected = NoRef]) EXCEPT !.outlineVisible = FALSE]
  ELSE updateOutline([syncUI(w, [sl EXCEPT !.selected = obj]) EXCEPT !.attached = obj], show)
setSelection(w, sl, obj, show) ==
  IF obj = NoRef
  THEN [syncUI(w, [sl EXCEPT !.selected = NoRef]) EXCEPT !.attached = NoRef,
                                                        !.outlineVisible = FALSE]
  ELSE updateOutline([syncUI(w, [sl EXCEPT !.selected = obj]) EXCEPT !.attached = obj], show)

\* clearSelection(), without its notification
clearSelection(w, sl) ==
  [syncUI(w, [sl EXCEPT !.selected = NoRef]) EXCEPT !.attached = NoRef,
                                                    !.outlineVisible = FALSE]

\* The constructor: nothing selected, outline hidden, name field synced;
\* STATE.showOutline starts true, the help modal hidden, and the preset list,
\* once rendered, has its first preset selected.
InitSel ==
  /\ selected = NoRef
  /\ attached = NoRef
  /\ outlineVisible = FALSE
  /\ nameField = PlainName("None")
  /\ showOutline = TRUE
  /\ helpOpen = FALSE
  /\ presetSel = 1

\* The prop nodes the selection or the gizmo still refers to
HeldIds == {o.p : o \in {r \in {selected, attached} : r.k \in {"prop", "propmesh"}}}

\* app.js applyPoseToScene(data): applyPose with the app's collaborators;
\* updateOutline is selection.updateOutline(). Gives [out, sel].
applyPoseToScene(data, rnd) ==
  LET out == applyPose(data, AppDeps, World, HeldIds, rnd)
  IN [out |-> out,
      sel |-> IF out.outline THEN updateOutline(Sel, showOutline) ELSE Sel]

(***************************************************************************)
(* Gallery (gallery/Gallery.js)                                            *)
(***************************************************************************)
\* The capacity opts.maxItems (30 in app.js), scaled down.
maxItems == 2
\* The number of items a run creates
MaxSaves == 2

\* An item of the gallery, or an entry of the stored array. obj: the entry
\* is a non-null object; id 0, pose <<>> and thumb "" are missing fields.
Item(id, nm, t, nt, pose, thumb) ==
  [obj |-> TRUE, id |-> id, name |-> nm, createdAt |-> t, notes |-> nt,
   pose |-> pose, thumb |-> thumb]
NullItem ==
  [obj |-> FALSE, id |-> 0, name |-> NoName, createdAt |-> 0, notes |-> "",
   pose |-> <<>>, thumb |-> ""]

\* `Pose ${n}`
PoseName(k) == [text |-> "Pose ", type |-> "", n |-> k]
\* String(x).trim(), over the texts the model passes
Trim(t) == IF t = "  " THEN "" ELSE t

\* What localStorage holds under the key: nothing, or a text that is
\* unparsable ("garbage"), a JSON value that is no array ("object"), or a
\* JSON array.
Stored(kind, v) == [kind |-> kind, v |-> v]
\* JSON.stringify(this.items)
stringify(its) == Stored("array", its)
\* JSON.parse(raw || "[]") in try/catch, anything but an array replaced by []
parseArray(st) == IF st.kind = "array" THEN st.v ELSE <<>>

\* The gallery's own state as one value
Gal ==
  [items |-> items, selectedId |-> selectedId, storage |-> storage,
   containerEl |-> containerEl]

SetGal(g) ==
  /\ items' = g.items
  /\ selectedId' = g.selectedId
  /\ containerEl' = g.containerEl
  /\ storage' = g.storage

HasId(its, id) == \E i \in 1..Len(its) : its[i].id = id

\* ensureSelectionValid()
ensureSelectionValidNever(g) == g
ensureSelectionValid(g) ==
  IF g.selectedId # 0 /\ ~HasId(g.items, g.selectedId)
  THEN [g EXCEPT !.selectedId = 0] ELSE g

\* render(): returns at once without a container, else starts with
\* ensureSelectionValid() and rebuilds the cards
render(g) == IF g.containerEl THEN ensureSelectionValid(g) ELSE g

\* it && typeof it === "object" && it.id && it.pose && it.thumb
ValidIsh(it) == it.obj /\ it.id # 0 /\ it.pose # <<>> /\ it.thumb # ""

\* if (length > maxItems) slice(0, maxItems) / items.length = maxItems
Truncate(its) == IF Len(its) > maxItems THEN SubSeq(its, 1, maxItems) ELSE its

\* loadFromStorage()
loadFromStorageUnfiltered(g) ==
  ensureSelectionValid([g EXCEPT !.items = Truncate(parseArray(g.storage))])
loadFromStorage(g) ==
  ensureSelectionValid(
    [g EXCEPT !.items = Truncate(SelectSeq(parseArray(g.storage), ValidIsh))])

\* What a gallery operation did: the gallery it left and its notifications
GOut(g, ts) == [g |-> g, toasts |-> ts]

\* saveToStorage(); quotaOk: setItem does not throw
saveToStorageSilent(o, quotaOk) ==
  IF quotaOk THEN [o EXCEPT !.g.storage = stringify(o.g.items)] ELSE o
saveToStorage(o, quotaOk) ==
  IF quotaOk THEN [o EXCEPT !.g.storage = stringify(o.g.items)]
  ELSE [o EXCEPT !.toasts = Append(@, "Gallery save failed (storage full?)")]

\* The collaborators a gallery is built with
GalleryDeps(sp, ct) == [serializePose |-> sp, captureThumbnail |-> ct]
AppGalleryDeps == GalleryDeps(TRUE, TRUE)

\* this.items.unshift(item)
InsertLast(its, it) == Append(its, it)
InsertFirst(its, it) == <<it>> \o its

\* saveCurrentPoseToGallery({ name, withToast }); pose, thumb, now, id are
\* what serializePose(), captureThumbnail(256), new Date() and uid() give
saveCurrentPoseToGallery(g, deps, name, withToast, pose, thumb, nts, now, id, quotaOk) ==
  IF ~deps.serializePose THEN GOut(g, <<"Gallery: serializePose() missing">>)
  ELSE IF ~deps.captureThumbnail THEN GOut(g, <<"Gallery: captureThumbnail() missing">>)
  ELSE IF thumb = "" THEN GOut(g, <<"Thumbnail capture failed">>)
  ELSE LET item == Item(id,
                        IF Trim(name) # "" THEN PlainName(Trim(name))
                        ELSE PoseName(Len(g.items) + 1),
                        now, nts, <<pose>>, thumb)
           g1 == [g EXCEPT !.items = Truncate(InsertFirst(@, item)), !.selectedId = id]
           o2 == saveToStorage(GOut(g1, <<>>), quotaOk)
           o3 == [o2 EXCEPT !.g = render(@)]
       IN IF withToast THEN [o3 EXCEPT !.toasts = Append(@, "Saved to gallery")] ELSE o3

\* The index of the first item with the id (items.find)
FindId(its, id) == CHOOSE i \in 1..Len(its) : its[i].id = id /\ \A j \in 1..(i - 1) : its[j].id # id

\* renameSelected(); input: what prompt() returns, <<>> for null
renameSelected(g, input, quotaOk) ==
  IF g.selectedId = 0 THEN GOut(g, <<"Select a pose thumbnail first">>)
  ELSE IF ~HasId(g.items, g.selectedId) THEN GOut(g, <<>>)
  ELSE IF input = <<>> THEN GOut(g, <<>>)
  ELSE LET i == FindId(g.items, g.selectedId)
           old == g.items[i].name
           new == IF Trim(input[1]) # "" THEN PlainName(Trim(input[1]))
                  ELSE IF NameTruthy(old) THEN old ELSE PlainName("Untitled pose")
           o2 == saveToStorage(GOut([g EXCEPT !.items[i].name = new], <<>>), quotaOk)
       IN [o2 EXCEPT !.g = render(@), !.toasts = Append(@, "Pose renamed")]

\* deleteSelected()
deleteSelectedFirst(g, quotaOk) ==
  IF g.selectedId = 0 THEN GOut(g, <<"Select a pose thumbnail first">>)
  ELSE IF g.items = <<>> THEN GOut([g EXCEPT !.selectedId = 0], <<>>)
  ELSE [g |-> [g EXCEPT !.items = Tail(@), !.selectedId = 0],
        toasts |-> <<"Pose deleted">>]
deleteSelected(g, quotaOk) ==
  IF g.selectedId = 0 THEN GOut(g, <<"Select a pose thumbnail first">>)
  ELSE LET IsOther(it) == it.id # g.selectedId
           g1 == [g EXCEPT !.items = SelectSeq(@, IsOther), !.selectedId = 0]
       IN IF Len(g1.items) = Len(g.items) THEN GOut(g1, <<>>)
          ELSE LET o2 == saveToStorage(GOut(g1, <<>>), quotaOk)
               IN [o2 EXCEPT !.g = render(@), !.toasts = Append(@, "Pose deleted")]

\* clearAll(); ok: what confirm() returns
clearAll(g, ok, quotaOk) ==
  IF g.items = <<>> THEN GOut(g, <<"Gallery is already empty">>)
  ELSE IF ~ok THEN GOut(g, <<>>)
  ELSE LET o2 == saveToStorage(GOut([g EXCEPT !.items = <<>>, !.selectedId = 0], <<>>), quotaOk)
       IN [o2 EXCEPT !.g = render(@), !.toasts = Append(@, "Gallery cleared")]

\* ---- what the storage holds when a run starts: what galleries wrote
\* earlier (newest first), possibly by one with a larger capacity, possibly
\* damaged since
RestPose == Doc([n \in JointNames |-> toArray(QId)], TRUE, <<>>, <<"">>)
OldItem(k) == Item(k, PlainName("Old"), k, "", <<RestPose>>, "png")
OldItems(n) == [i \in 1..n |-> OldItem(n + 1 - i)]
StorageInputs ==
  {Stored("none", <<>>), Stored("garbage", <<>>), Stored("object", <<>>),
   Stored("array", OldItems(maxItems + 1)),
   Stored("array", <<NullItem, OldItem(2), [OldItem(3) EXCEPT !.thumb = ""],
                     [OldItem(3) EXCEPT !.pose = <<>>], [OldItem(3) EXCEPT !.id = 0],
                     OldItem(1)>>)}
\* Date.now() when the run starts, after every stored creation time
StartClock == maxItems + 1
\* uid(): an id no item had before
uid(n) == maxItems + 2 + n

\* new Gallery(opts)
InitGallery(contents) ==
  /\ items = <<>>
  /\ selectedId = 0
  /\ storage \in contents
  /\ clock = StartClock
  /\ saves = 0
  /\ containerEl = TRUE

LoadFromStorage ==
  /\ SetGal(loadFromStorage(Gal))
  /\ NoToast
  /\ UNCHANGED <<clock, saves, modesVars, worldVars, callVars, selVars, uiVars, impVars, inputVars, shellVars>>

\* The calls made: <<deps, name, withToast, thumbOk, quotaOk>>. Every name
\* and flag with the collaborators app.js passes and a capture that works,
\* then a capture that gives nothing, then each collaborator left out.
NameInputs == {"  ", "Hero"}
SaveInputs ==
  ({AppGalleryDeps} \X NameInputs \X BOOLEAN \X {TRUE} \X {TRUE})
    \cup {<<AppGalleryDeps, "  ", TRUE, TRUE, FALSE>>,
          <<AppGalleryDeps, "  ", TRUE, FALSE, TRUE>>,
          <<GalleryDeps(FALSE, TRUE), "  ", TRUE, TRUE, TRUE>>,
          <<GalleryDeps(TRUE, FALSE), "  ", TRUE, TRUE, TRUE>>}

\* btnSaveGallery, Ctrl+S, btnSavePose: saveCurrentPoseToGallery
SaveCurrentPoseWith(in, now) ==
  LET o == saveCurrentPoseToGallery(Gal, in[1], in[2], in[3],
                                    serializePose(World, now),
                                    IF in[4] THEN "png" ELSE "", notes,
                                    now, uid(saves), in[5])
  IN /\ saves < MaxSaves
     /\ now <= StartClock + MaxSaves
     /\ SetGal(o.g)
     /\ clock' = IF in[1].serializePose /\ in[1].captureThumbnail THEN now ELSE clock
     /\ saves' = IF o.g.items # items THEN saves + 1 ELSE saves
     /\ Toasts(o.toasts)
     /\ UNCHANGED <<modesVars, worldVars, callVars, selVars, uiVars, impVars, inputVars, shellVars>>

SaveCurrentPose ==
  \E in \in SaveInputs, now \in {clock, clock + 1} : SaveCurrentPoseWith(in, now)

\* What prompt() returns: null, a blank text, a name
RenameInputs == {<<>>, <<"  ">>, <<"New">>}

RenameSelectedWith(input) ==
  \E quotaOk \in {TRUE} :
    LET o == renameSelected(Gal, input, quotaOk)
    IN /\ SetGal(o.g)
       /\ Toasts(o.toasts)
       /\ UNCHANGED <<clock, saves, modesVars, worldVars, callVars, selVars, uiVars, impVars, inputVars, shellVars>>

RenameSelected == \E input \in RenameInputs : RenameSelectedWith(input)

DeleteSelected ==
  \E quotaOk \in {TRUE} :
    LET o == deleteSelected(Gal, quotaOk)
    IN /\ SetGal(o.g)
       /\ Toasts(o.toasts)
       /\ UNCHANGED <<clock, saves, modesVars, worldVars, callVars, selVars, uiVars, impVars, inputVars, shellVars>>

ClearAll ==
  \E ok \in BOOLEAN, quotaOk \in {TRUE} :
    LET o == clearAll(Gal, ok, quotaOk)
    IN /\ SetGal(o.g)
       /\ Toasts(o.toasts)
       /\ UNCHANGED <<clock, saves, modesVars, worldVars, callVars, selVars, uiVars, impVars, inputVars, shellVars>>

\* A click on the card of items[i] (cards exist once render() had a
\* container to build them in): select, render, apply the pose to the
\* scene, copy the notes, notify; a throw of applyPose ends the handler.
CardClick ==
  \E i \in 1..Len(items), rnd \in Positions :
    LET it == items[i]
        g1 == render([Gal EXCEPT !.selectedId = it.id])
        r == applyPoseToScene(it.pose[1], rnd)
    IN /\ containerEl
       /\ ~r.out.full
       /\ SetGal(g1)
       /\ SetSel(r.sel)
       /\ SetWorld(IF r.out.thrown THEN r.out.w ELSE [r.out.w EXCEPT !.notes = it.notes])
       /\ Toasts(IF r.out.thrown THEN <<>> ELSE r.out.toasts \o <<"Loaded: name">>)
       /\ UNCHANGED <<clock, saves, modesVars, callVars, uiVars, impVars, inputVars, shellVars>>

(***************************************************************************)
(* importPosePack (poses/pose-io.js)                                       *)
(***************************************************************************)
\* The longest file list
MaxFiles == 3

\* What file.text() resolves to, and JSON.parse of it: <<>> when it throws
Text(kind, v) == [kind |-> kind, v |-> v]
JSONparse(t) == IF t.kind = "json" THEN <<t.v>> ELSE <<>>

\* A file of the list: its name as stem and extension, whether text()
\* resolves, and the text
File(stem, ext, readOk, text) ==
  [nul |-> FALSE, stem |-> stem, ext |-> ext, readOk |-> readOk, text |-> text]
NullFile ==
  [nul |-> TRUE, stem |-> "", ext |-> "", readOk |-> FALSE, text |-> Text("malformed", NotAnObject)]

toLowerCase(t) ==
  CASE t = ".JSON" -> ".json"
    [] t = "A" -> "a"
    [] t = "Escape" -> "escape"
    [] t = "F" -> "f"
    [] t = "Shift" -> "shift"
    [] OTHER -> t
\* file?.name?.toLowerCase().endsWith(".json")
IsJsonName(f) == ~f.nul /\ toLowerCase(f.ext) = ".json"

\* The collaborators a caller passes as deps
ImportDeps(ap, sv, rg, st) ==
  [applyPose |-> ap, saveToGallery |-> sv, renderGallery |-> rg, showToast |-> st]

\* The call: pc is "idle" before it, "reading" while it awaits files[i].text(),
\* "done" once its promise is settled; ret is <<>> for undefined
Import(pc, files, deps, i, imported, r, renders, warns) ==
  [pc |-> pc, files |-> files, deps |-> deps, i |-> i, imported |-> imported,
   ret |-> r, renders |-> renders, warns |-> warns]

InitImport == imp = Import("idle", <<>>, ImportDeps(TRUE, TRUE, TRUE, TRUE), 0, 0, <<>>, 0, 0)

\* The application's state a file of the import acts on
AppState == [w |-> World, sel |-> Sel, g |-> Gal, clock |-> clock, saves |-> saves]

SetAppState(a) ==
  /\ SetWorld(a.w)
  /\ SetSel(a.sel)
  /\ SetGal(a.g)
  /\ clock' = a.clock
  /\ saves' = a.saves

\* The first file at index k or later that the loop does not skip, 0 if none
NextJson(files, k) ==
  IF \E j \in k..Len(files) : IsJsonName(files[j])
  THEN CHOOSE j \in k..Len(files) :
         IsJsonName(files[j]) /\ \A h \in k..(j - 1) : ~IsJsonName(files[h])
  ELSE 0

\* `Imported ${imported} pose${imported > 1 ? "s" : ""}`
SummaryToast(n) ==
  IF n > 0 THEN "Imported " \o ToString(n) \o " pose" \o (IF n > 1 THEN "s" ELSE "")
  ELSE "No valid poses imported"

\* The loop from index k to the next await, or past the loop to the return:
\* gives the call, the gallery and the notifications sent
Advance(m, g, k) ==
  IF NextJson(m.files, k) # 0
  THEN [m |-> [m EXCEPT !.pc = "reading", !.i = NextJson(m.files, k)], g |-> g,
        toasts |-> <<>>]
  ELSE [m |-> [m EXCEPT !.pc = "done", !.i = 0, !.ret = <<m.imported>>,
                        !.renders = IF m.deps.renderGallery THEN @ + 1 ELSE @],
        g |-> IF m.deps.renderGallery THEN render(g) ELSE g,
        toasts |-> IF m.deps.showToast THEN <<SummaryToast(m.imported)>> ELSE <<>>]

\* importPosePack(files, deps) up to its first await
importPosePack(files, deps, g) ==
  IF Len(files) = 0
  THEN [m |-> Import("done", files, deps, 0, 0, <<>>, 0, 0), g |-> g, toasts |-> <<>>]
  ELSE Advance(Import("idle", files, deps, 0, 0, <<>>, 0, 0), g, 1)

\* The body of try with the gallery save taken from the world as it was
\* before the file was applied
ImportOneSaveFirst(a, f, deps, rnd, thumb, now, quotaOk) ==
  LET parsed == JSONparse(f.text)
      r == applyPose(parsed[1], AppDeps, a.w, HeldIds, rnd)
      applied == deps.applyPose /\ parsed # <<>>
      w1 == IF applied THEN r.w ELSE a.w
      s1 == IF applied /\ r.outline THEN updateOutline(a.sel, showOutline) ELSE a.sel
      o == saveCurrentPoseToGallery(a.g, AppGalleryDeps, f.stem, FALSE,
                                    serializePose(a.w, now), thumb, a.w.notes, now,
                                    uid(a.saves), quotaOk)
  IN IF ~f.readOk \/ parsed = <<>> THEN [a |-> a, thrown |-> TRUE, toasts |-> <<>>, full |-> FALSE]
     ELSE IF applied /\ r.full THEN [a |-> a, thrown |-> FALSE, toasts |-> <<>>, full |-> TRUE]
     ELSE IF applied /\ r.thrown
          THEN [a |-> [a EXCEPT !.w = w1, !.sel = s1], thrown |-> TRUE, toasts |-> <<>>, full |-> FALSE]
     ELSE IF ~deps.saveToGallery
          THEN [a |-> [a EXCEPT !.w = w1, !.sel = s1], thrown |-> FALSE,
                toasts |-> IF applied THEN r.toasts ELSE <<>>, full |-> FALSE]
     ELSE [a |-> [a EXCEPT !.w = w1, !.sel = s1, !.g = o.g, !.clock = now,
                           !.saves = IF o.g.items # a.g.items THEN @ + 1 ELSE @],
           thrown |-> FALSE,
           toasts |-> (IF applied THEN r.toasts ELSE <<>>) \o o.toasts, full |-> FALSE]

\* The body of try for one file after its text is read: parse, apply, save.
\* Gives the application's state, whether it threw, and the notifications.
ImportOne(a, f, deps, rnd, thumb, now, quotaOk) ==
  LET parsed == JSONparse(f.text)
      r == applyPose(parsed[1], AppDeps, a.w, HeldIds, rnd)
      applied == deps.applyPose /\ parsed # <<>>
      w1 == IF applied THEN r.w ELSE a.w
      s1 == IF applied /\ r.outline THEN updateOutline(a.sel, showOutline) ELSE a.sel
      o == saveCurrentPoseToGallery(a.g, AppGalleryDeps, f.stem, FALSE,
                                    serializePose(w1, now), thumb, w1.notes, now,
                                    uid(a.saves), quotaOk)
  IN IF ~f.readOk \/ parsed = <<>> THEN [a |-> a, thrown |-> TRUE, toasts |-> <<>>, full |-> FALSE]
     ELSE IF applied /\ r.full THEN [a |-> a, thrown |-> FALSE, toasts |-> <<>>, full |-> TRUE]
     ELSE IF applied /\ r.thrown
          THEN [a |-> [a EXCEPT !.w = w1, !.sel = s1], thrown |-> TRUE, toasts |-> <<>>, full |-> FALSE]
     ELSE IF ~deps.saveToGallery
          THEN [a |-> [a EXCEPT !.w = w1, !.sel = s1], thrown |-> FALSE,
                toasts |-> IF applied THEN r.toasts ELSE <<>>, full |-> FALSE]
     ELSE [a |-> [a EXCEPT !.w = w1, !.sel = s1, !.g = o.g, !.clock = now,
                           !.saves = IF o.g.items # a.g.items THEN @ + 1 ELSE @],
           thrown |-> FALSE,
           toasts |-> (IF applied THEN r.toasts ELSE <<>>) \o o.toasts, full |-> FALSE]

\* The files a list is made of: skipped by name, unreadable, malformed,
\* parsed but refused by applyPose, and two valid poses
GoodPose(q) == Doc([n \in {JointOrder[1]} |-> Arr(q)], FALSE, <<>>, <<>>)
FileInputs ==
  {NullFile,
   File("readme", ".txt", TRUE, Text("json", GoodPose(QA))),
   File("gone", ".json", FALSE, Text("json", GoodPose(QA))),
   File("broken", ".json", TRUE, Text("malformed", NotAnObject)),
   File("five", ".json", TRUE, Text("json", NotAnObject)),
   File("hero", ".JSON", TRUE, Text("json", GoodPose(QA))),
   File("sit", ".json", TRUE, Text("json", GoodPose(QB)))}
FileLists == UNION {[1..n -> FileInputs] : n \in 0..MaxFiles}
ImportDepsInputs ==
  {ImportDeps(TRUE, TRUE, TRUE, TRUE), ImportDeps(TRUE, TRUE, FALSE, TRUE),
   ImportDeps(TRUE, TRUE, TRUE, FALSE)}

\* importPosePack(files, deps) is called
ImportStart ==
  \E files \in FileLists, deps \in ImportDepsInputs :
    LET o == importPosePack(files, deps, Gal)
    IN /\ imp.pc = "idle"
       /\ imp' = o.m
       /\ SetGal(o.g)
       /\ Toasts(o.toasts)
       /\ UNCHANGED <<clock, saves, modesVars, worldVars, callVars, selVars, uiVars, inputVars, shellVars>>

\* await file.text() settles: the rest of the loop body for files[i], then
\* the loop up to the next await or the return
ImportResume ==
  \E rnd \in {V0}, thumb \in {"png", ""}, now \in {clock + 1} :
    LET f == imp.files[imp.i]
        b == ImportOne(AppState, f, imp.deps, rnd, thumb, now, TRUE)
        m1 == IF b.thrown THEN [imp EXCEPT !.warns = @ + 1]
              ELSE [imp EXCEPT !.imported = @ + 1]
        o == Advance(m1, b.a.g, imp.i + 1)
    IN /\ imp.pc = "reading"
       /\ ~b.full
       /\ imp' = o.m
       /\ SetAppState([b.a EXCEPT !.g = o.g])
       /\ Toasts(b.toasts \o o.toasts)
       /\ UNCHANGED <<modesVars, callVars, uiVars, inputVars, shellVars>>

NextImport == ImportStart \/ ImportResume

\* The import with the handlers of the user's operations on the world and on
\* the gallery, which run whenever no handler is running
NextInterleave == ImportStart \/ ImportResume \/ PoseJoint \/ DeleteSelected

(***************************************************************************)
(* Built-in presets (poses/presets.js)                                     *)
(***************************************************************************)
\* A preset quaternion: integers proportional to the components as written
\* (thousandths, rounded); [0, 0, 0, 1] is QId.
\* The joint names every built-in preset lists
PresetNames ==
  {"char_root", "hips", "chest", "neck", "l_shoulder", "r_shoulder", "l_elbow",
   "r_elbow", "l_hip", "r_hip", "l_knee", "r_knee"}

\* A preset that lists only the joints of the upper body
PresetJointsUpperBody(chest, neck, ls, rs, le, re, hips) ==
  [n \in {"hips", "chest", "neck", "l_shoulder", "r_shoulder", "l_elbow", "r_elbow"} |->
     Arr(CASE n = "hips" -> hips
           [] n = "chest" -> chest
           [] n = "neck" -> neck
           [] n = "l_shoulder" -> ls
           [] n = "r_shoulder" -> rs
           [] n = "l_elbow" -> le
           [] OTHER -> re)]
PresetJoints(chest, neck, ls, rs, le, re, hips) ==
  [n \in PresetNames |->
     Arr(CASE n = "hips" -> hips
           [] n = "chest" -> chest
           [] n = "neck" -> neck
           [] n = "l_shoulder" -> ls
           [] n = "r_shoulder" -> rs
           [] n = "l_elbow" -> le
           [] n = "r_elbow" -> re
           [] OTHER -> QId)]

Preset(name, js) == [name |-> name, pose |-> Doc(js, FALSE, <<>>, <<>>)]

\* createPresets()
createPresets ==
  <<Preset("Relaxed",
           PresetJoints(QId, <<48, 10, -1, 999>>, <<130, -15, 65, 989>>,
                        <<276, 24, -54, 959>>, <<280, -15, 6, 960>>,
                        <<-257, 44, 9, 965>>, QId)),
    Preset("Twist",
           PresetJoints(<<-41, -90, 11, 995>>, <<12, 91, 15, 996>>,
                        <<-249, 178, -86, 949>>, <<269, 76, -45, 959>>,
                        <<27, -91, -7, 995>>, <<-64, -76, 76, 992>>, QId)),
    Preset("Lean",
           PresetJoints(QId, <<-70, -4, 0, 998>>, <<-144, 5, 58, 988>>,
                        <<110, 2, -47, 993>>, <<108, 17, 2, 994>>,
                        <<-63, 3, 7, 998>>, QId)),
    Preset("Action",
           PresetJoints(QId, <<-218, 10, 2, 976>>, <<364, -82, 158, 914>>,
                        <<179, -242, 50, 953>>, <<258, 14, -66, 964>>,
                        <<-193, -11, 76, 978>>, <<104, 0, 0, 995>>)),
    Preset("Neutral", PresetJoints(QId, QId, QId, QId, QId, QId, QId))>>

(***************************************************************************)
(* The assembled application's handlers (app.js)                           *)
(***************************************************************************)
\* selection.onPointerDown(ev); hit = hits[0].object of the ray
onPointerDownAnyMode(w, sl, hit, md, help, show) ==
  IF help THEN [sel |-> sl, toasts |-> <<>>]
  ELSE IF pickFromPointer(w, hit) = NoRef THEN [sel |-> sl, toasts |-> <<>>]
  ELSE [sel |-> setSelection(w, sl, pickFromPointer(w, hit), show),
        toasts |-> <<"Selected: name">>]
onPointerDown(w, sl, hit, md, help, show) ==
  IF md = "orbit" \/ help THEN [sel |-> sl, toasts |-> <<>>]
  ELSE IF pickFromPointer(w, hit) = NoRef THEN [sel |-> sl, toasts |-> <<>>]
  ELSE [sel |-> setSelection(w, sl, pickFromPointer(w, hit), show),
        toasts |-> <<"Selected: name">>]

\* The meshes a pointer-down lands on: limbs of the rotated joints, props
PointerHits(w) ==
  {MeshRef(n) : n \in PosedJoints \cap MeshJoints}
    \cup {PropMeshRef(i) : i \in Range(w.props)} \cup {NoRef}

PointerDownWith(hit) ==
  LET o == onPointerDown(World, Sel, hit, mode, helpOpen, showOutline)
  IN /\ SetSel(o.sel)
     /\ Toasts(o.toasts)
     /\ UNCHANGED <<modesVars, worldVars, callVars, galleryVars, uiVars, impVars, inputVars, shellVars>>

PointerDown == \E hit \in PointerHits(World) : PointerDownWith(hit)

\* A click on a prop button (bindPropButtons): spawn, select, notify
SpawnButton ==
  \E t \in {"cube", "sphere"}, rnd \in {V1} :
    LET p == FreshId(World, HeldIds)
        w1 == spawnProp(World, t, rnd, p)
    IN /\ Len(props) < MaxPoseProps
       /\ FreeIds(World, HeldIds) # {}
       /\ SetWorld(w1)
       /\ SetSel(setSelection(w1, Sel, PropRef(p), showOutline))
       /\ Toast("Added " \o t)
       /\ UNCHANGED <<modesVars, callVars, galleryVars, uiVars, impVars, inputVars, shellVars>>

\* deleteSelectedProp() (btnDelProp, Delete, Backspace)
DeleteSelectedProp ==
  IF selected = NoRef \/ ~IsProp(World, selected)
  THEN /\ Toast("Select a prop to delete")
       /\ UNCHANGED <<modesVars, worldVars, callVars, galleryVars, selVars, uiVars, impVars, inputVars, shellVars>>
  ELSE LET w1 == removeProp(World, TRUE, selected.p)
       IN /\ SetWorld(Collect(w1, {}))
          /\ SetSel(clearSelection(w1, Sel))
          /\ Toasts(<<"Selection cleared", "Prop deleted">>)
          /\ UNCHANGED <<modesVars, callVars, galleryVars, uiVars, impVars, inputVars, shellVars>>

\* The pose files a user loads: none chosen, unreadable or malformed, and
\* documents without props, with an empty props array, with one prop
LoadInputs ==
  {<<>>,
   <<Text("malformed", NotAnObject)>>,
   <<Text("json", NotAnObject)>>,
   <<Text("json", Doc(OneJoint, FALSE, <<>>, <<>>))>>,
   <<Text("json", Doc(<<>>, TRUE, <<>>, <<>>))>>,
   <<Text("json", Doc(<<>>, TRUE, <<Entry(PlainName("Big Cube"), <<V1>>, <<QA>>, <<S2>>)>>,
                      <<>>))>>}

\* filePose "change": the handler from the file read on
LoadPoseFile ==
  \E file \in LoadInputs, rnd \in {V1} :
    IF file = <<>>
    THEN NoToast /\ UNCHANGED <<modesVars, worldVars, callVars, galleryVars, selVars,
                                uiVars, impVars, inputVars, shellVars>>
    ELSE IF JSONparse(file[1]) = <<>>
    THEN Toast("Load failed (invalid json)")
         /\ UNCHANGED <<modesVars, worldVars, callVars, galleryVars, selVars, uiVars, impVars, inputVars, shellVars>>
    ELSE LET r == applyPoseToScene(JSONparse(file[1])[1], rnd)
         IN /\ ~r.out.full
            /\ SetWorld(r.out.w)
            /\ SetSel(r.sel)
            /\ Toasts(IF r.out.thrown THEN <<"Load failed (invalid json)">> ELSE r.out.toasts)
            /\ UNCHANGED <<modesVars, callVars, galleryVars, uiVars, impVars, inputVars, shellVars>>

\* PresetsUI: what a click on preset k's card, or on Apply Preset with
\* preset k selected, does after selecting
ApplyPreset(k) ==
  LET o == applyPoseJointsOnly(createPresets[k].pose, AppDeps, World)
  IN /\ presetSel' = k
     /\ SetWorld(o.w)
     /\ SetSel(IF o.outline THEN updateOutline(Sel, showOutline) ELSE Sel)
     /\ Toasts(IF o.thrown THEN <<"Preset apply failed">>
               ELSE o.toasts \o <<"Preset applied: " \o createPresets[k].name>>)
     /\ UNCHANGED <<modesVars, callVars, galleryVars, showOutline, helpOpen, impVars, inputVars, shellVars>>

\* The cards clicked: the first and the last
PresetCardClick == \E k \in {1, Len(createPresets)} : ApplyPreset(k)

\* getSelected(): ensureDefaultSelected, then the selected preset
PresetApplyButton == ApplyPreset(IF presetSel = 0 THEN 1 ELSE presetSel)

\* PresetsUI.render() with a container: ensureDefaultSelected()
PresetRender ==
  /\ presetSel' = IF presetSel = 0 THEN 1 ELSE presetSel
  /\ NoToast
  /\ UNCHANGED <<modesVars, worldVars, callVars, galleryVars, selVars, showOutline,
                 helpOpen, impVars, inputVars, shellVars>>

\* openHelp(), closeHelp()
OpenHelp ==
  /\ helpOpen' = TRUE
  /\ Toast("Help opened")
  /\ UNCHANGED <<modesVars, worldVars, callVars, galleryVars, selVars, showOutline,
                 presetSel, impVars, inputVars, shellVars>>

CloseHelp ==
  /\ helpOpen' = FALSE
  /\ Toast("Help closed")
  /\ UNCHANGED <<modesVars, worldVars, callVars, galleryVars, selVars, showOutline,
                 presetSel, impVars, inputVars, shellVars>>

\* keydown Escape: close help first, else clear the selection
EscapeKeyBoth ==
  /\ helpOpen' = FALSE
  /\ SetSel(clearSelection(World, Sel))
  /\ Toast("Selection cleared")
  /\ UNCHANGED <<modesVars, worldVars, callVars, galleryVars, showOutline, presetSel,
                 impVars, inputVars, shellVars>>
EscapeKey ==
  IF helpOpen THEN CloseHelp
  ELSE /\ SetSel(clearSelection(World, Sel))
       /\ Toast("Selection cleared")
       /\ UNCHANGED <<modesVars, worldVars, callVars, galleryVars, uiVars, impVars, inputVars, shellVars>>

NextApp ==
  \/ PointerDown
  \/ SpawnButton
  \/ DeleteSelectedProp
  \/ LoadPoseFile
  \/ CardClick
  \/ PresetCardClick
  \/ PresetApplyButton
  \/ OpenHelp
  \/ CloseHelp
  \/ EscapeKey

(***************************************************************************)
(* SelectionController driven call by call, with the mode, the help modal  *)
(* and the outline toggle that it reads                                    *)
(***************************************************************************)
\* The nodes a caller selects: nothing, a rotated joint, a prop, a prop's mesh
SelectInputs(w) ==
  {NoRef} \cup {JointRef(n) : n \in PosedJoints}
    \cup {PropRef(i) : i \in Range(w.props)} \cup {PropMeshRef(i) : i \in Range(w.props)}

\* selection.setSelection(obj)
SetSelection ==
  \E obj \in SelectInputs(World) :
    /\ SetSel(setSelection(World, Sel, obj, showOutline))
    /\ NoToast
    /\ UNCHANGED <<modesVars, worldVars, callVars, galleryVars, uiVars, impVars, inputVars, shellVars>>

\* selection.clearSelection()
ClearSelection ==
  /\ SetSel(clearSelection(World, Sel))
  /\ Toast("Selection cleared")
  /\ UNCHANGED <<modesVars, worldVars, callVars, galleryVars, uiVars, impVars, inputVars, shellVars>>

\* togOutline "change": setShowOutline(STATE, checked); selection.updateOutline()
ToggleOutline ==
  /\ showOutline' = ~showOutline
  /\ SetSel(updateOutline(Sel, showOutline'))
  /\ NoToast
  /\ UNCHANGED <<modesVars, worldVars, callVars, galleryVars, helpOpen, presetSel, impVars, inputVars, shellVars>>

\* SelectionController.tick(): the outline follows the selection and the flag
tick(sl, show) == [sl EXCEPT !.outlineVisible = (sl.selected # NoRef /\ show)]

Tick ==
  /\ SetSel(tick(Sel, showOutline))
  /\ NoToast
  /\ UNCHANGED <<modesVars, worldVars, callVars, galleryVars, uiVars, impVars, inputVars, shellVars>>

\* SelectionController.onKeyDown(ev): Escape clears the selection unless the
\* help modal is open; f/F focuses the camera on the selection
SelKeys == {"Escape", "f", "F", "a"}

onKeyDown(w, sl, key, help) ==
  IF key = "Escape"
  THEN IF help THEN [sel |-> sl, toasts |-> <<>>]
       ELSE [sel |-> clearSelection(w, sl), toasts |-> <<"Selection cleared">>]
  ELSE IF toLowerCase(key) = "f" /\ sl.selected # NoRef
       THEN [sel |-> sl, toasts |-> <<"Focused">>]
       ELSE [sel |-> sl, toasts |-> <<>>]

SelectionKeyDownWith(key) ==
  LET o == onKeyDown(World, Sel, key, helpOpen)
  IN /\ SetSel(o.sel)
     /\ Toasts(o.toasts)
     /\ UNCHANGED <<modesVars, worldVars, callVars, galleryVars, uiVars, impVars, inputVars, shellVars>>

SelectionKeyDown == \E key \in SelKeys : SelectionKeyDownWith(key)

\* createLoop's frame(): the outline box is refitted to the selection when
\* one is shown; its visibility is not written
Frame ==
  /\ NoToast
  /\ UNCHANGED <<modesVars, worldVars, callVars, galleryVars, selVars, uiVars, impVars, inputVars, shellVars>>

NextSelect ==
  \/ SetSelection
  \/ ClearSelection
  \/ PointerDown
  \/ EscapeKey
  \/ ToggleOutline
  \/ Tick
  \/ Frame
  \/ SpawnButton
  \/ SetMode
  \/ OpenHelp
  \/ CloseHelp
  \/ SelectionKeyDown

(***************************************************************************)
(* InputManager (controls/input.js)                                        *)
(***************************************************************************)
\* The most subscriptions the registry holds
MaxListeners == 2

\* The event types of the registry that the model subscribes to
EvTypes == {"pointerdown", "pointerup", "keydown", "keyup", "blur"}

\* A listener function: its identity, whether it throws when called, and
\* the listener it unsubscribes when called (0: none)
Listener(id, throws) == [id |-> id, throws |-> throws, offs |-> 0]
Listeners == {Listener(1, FALSE), Listener(2, TRUE)}

\* A listener that calls off(type, target), or the function on() returned
\* for target, from inside the dispatch
Unsubscriber(id, target) == [id |-> id, throws |-> FALSE, offs |-> target]
UnsubListeners == {Listener(1, FALSE), Unsubscriber(3, 3), Unsubscriber(4, 1)}

\* A DOM pointer event and the keys of keyboard events
PointerEvent(x, y, button, pointerId) ==
  [clientX |-> x, clientY |-> y, button |-> button, pointerId |-> pointerId]
PointerEvents == {PointerEvent(3, 4, 0, 1), PointerEvent(5, 6, 2, 7)}
KeyInputs == {"A", "a", "Escape"}

\* The keys of the keyboard by e.code, and e.key of the event a key gives:
\* a letter key gives the capital while a Shift key is held
Codes == {"KeyA", "KeyF", "ShiftLeft", "Escape"}
KeyOf(code, shift) ==
  CASE code = "KeyA" -> IF shift THEN "A" ELSE "a"
    [] code = "KeyF" -> IF shift THEN "F" ELSE "f"
    [] code = "ShiftLeft" -> "Shift"
    [] OTHER -> "Escape"

\* The constructor: pointer at rest, no key down, empty registry; ev and got
\* are the event type of the last dispatch ("none" when the last handler
\* emitted nothing) and the listeners that received it, in order; escaped
\* tells whether an exception left the dispatch
InitInput ==
  inp = [clientX |-> 0, clientY |-> 0, isDown |-> FALSE, button |-> 0, pointerId |-> 0,
         keys |-> {}, handlers |-> [t \in EvTypes |-> <<>>],
         ev |-> "none", got |-> <<>>, escaped |-> FALSE, down |-> {}]

Quiet(m) == [m EXCEPT !.ev = "none", !.got = <<>>, !.escaped = FALSE]

\* on(type, fn)
on(m, type, fn) ==
  IF type \notin EvTypes THEN m
  ELSE [m EXCEPT !.handlers[type] = Append(@, fn)]

\* off(type, fn): indexOf, splice
off(m, type, fn) ==
  IF type \notin EvTypes THEN m
  ELSE IF IndexOf(m.handlers[type], fn) = 0 THEN m
  ELSE [m EXCEPT !.handlers[type] = RemoveAt(@, IndexOf(m.handlers[type], fn))]

\* What calling fn does to the registry: off(type, fn.offs) when it
\* unsubscribes a listener
called(m, type, fn) ==
  LET arr == m.handlers[type]
      hit == {k \in 1..Len(arr) : arr[k].id = fn.offs}
  IN IF fn.offs = 0 \/ hit = {} THEN m
     ELSE off(m, type, arr[CHOOSE k \in hit : \A h \in hit : k <= h])

\* _emit(type, evt): for (const fn of arr) try { fn(evt) } catch { log };
\* arr is the registry's own array, so the iteration sees what the
\* listeners splice out of it
RECURSIVE emitFrom(_, _, _)
emitFromNoCatch(type, i, r) ==
  IF i > Len(r.handlers[type]) THEN r
  ELSE LET fn == r.handlers[type][i]
       IN IF fn.throws THEN [r EXCEPT !.got = Append(@, fn.id), !.escaped = TRUE]
          ELSE emitFrom(type, i + 1, called([r EXCEPT !.got = Append(@, fn.id)], type, fn))
emitFrom(type, i, r) ==
  IF i > Len(r.handlers[type]) THEN r
  ELSE LET fn == r.handlers[type][i]
       IN emitFrom(type, i + 1, called([r EXCEPT !.got = Append(@, fn.id)], type, fn))

emit(m, type) ==
  emitFrom(type, 1, [m EXCEPT !.ev = type, !.got = <<>>, !.escaped = FALSE])

\* _onPointerDown(e); help = _isHelpOpen()
inputPointerDownUngated(m, e, help) ==
  emit([m EXCEPT !.clientX = e.clientX, !.clientY = e.clientY, !.isDown = TRUE,
                 !.button = e.button, !.pointerId = e.pointerId], "pointerdown")
inputPointerDown(m, e, help) ==
  IF help THEN Quiet(m)
  ELSE emit([m EXCEPT !.clientX = e.clientX, !.clientY = e.clientY, !.isDown = TRUE,
                      !.button = e.button, !.pointerId = e.pointerId], "pointerdown")

\* _onPointerUp(e)
inputPointerUp(m, e) ==
  emit([m EXCEPT !.clientX = e.clientX, !.clientY = e.clientY, !.isDown = FALSE],
       "pointerup")

\* _onKeyDown(e), _onKeyUp(e)
inputKeyDown(m, k) ==
  emit([m EXCEPT !.keys = @ \cup {k, toLowerCase(k)}], "keydown")
inputKeyUp(m, k) ==
  emit([m EXCEPT !.keys = @ \ {k, toLowerCase(k)}], "keyup")

\* _onBlur()
inputBlurKeepKeys(m) ==
  emit([m EXCEPT !.isDown = FALSE, !.pointerId = 0], "blur")
inputBlur(m) ==
  emit([m EXCEPT !.isDown = FALSE, !.pointerId = 0, !.keys = {}], "blur")

Subscribed(m) == Len(m.handlers["pointerdown"]) + Len(m.handlers["pointerup"])
                   + Len(m.handlers["keydown"]) + Len(m.handlers["keyup"])
                   + Len(m.handlers["blur"])

InputFrame ==
  /\ NoToast
  /\ UNCHANGED <<modesVars, worldVars, callVars, galleryVars, selVars, uiVars, impVars, shellVars>>

On ==
  /\ \E type \in {"pointerdown", "keydown", "blur", "wheel"}, fn \in Listeners :
       /\ Subscribed(inp) < MaxListeners
       /\ inp' = Quiet(on(inp, type, fn))
  /\ InputFrame

Off ==
  /\ \E type \in {"pointerdown", "keydown", "blur", "wheel"}, fn \in Listeners :
       inp' = Quiet(off(inp, type, fn))
  /\ InputFrame

\* The user presses a key that is up: the window's keydown with e.key as
\* the Shift state makes it
KeyPress ==
  /\ \E code \in Codes \ inp.down :
       inp' = [inputKeyDown(inp, KeyOf(code, "ShiftLeft" \in inp.down \cup {code}))
                 EXCEPT !.down = @ \cup {code}]
  /\ InputFrame

\* The user releases a key that is down: the window's keyup
KeyRelease ==
  /\ \E code \in inp.down :
       inp' = [inputKeyUp(inp, KeyOf(code, "ShiftLeft" \in inp.down \ {code}))
                 EXCEPT !.down = @ \ {code}]
  /\ InputFrame

\* on(type, fn) with a listener that is not subscribed yet, among them the
\* ones that unsubscribe when called
OnUnsub ==
  /\ \E type \in {"pointerdown", "keydown"}, fn \in UnsubListeners :
       /\ Subscribed(inp) < MaxListeners
       /\ \A t \in EvTypes : \A k \in 1..Len(inp.handlers[t]) : inp.handlers[t][k].id # fn.id
       /\ inp' = Quiet(on(inp, type, fn))
  /\ InputFrame

InputPointerDownWith(e) ==
  /\ inp' = inputPointerDown(inp, e, helpOpen)
  /\ InputFrame

InputPointerDown == \E e \in PointerEvents : InputPointerDownWith(e)

InputPointerUp ==
  /\ \E e \in PointerEvents : inp' = inputPointerUp(inp, e)
  /\ InputFrame

InputKeyDown ==
  /\ \E k \in KeyInputs : inp' = inputKeyDown(inp, k)
  /\ InputFrame

InputKeyUp ==
  /\ \E k \in KeyInputs : inp' = inputKeyUp(inp, k)
  /\ InputFrame

InputBlur ==
  /\ inp' = inputBlur(inp)
  /\ InputFrame

NextInput ==
  \/ On
  \/ Off
  \/ InputPointerDown
  \/ InputPointerUp
  \/ InputKeyDown
  \/ InputKeyUp
  \/ InputBlur
  \/ OpenHelp
  \/ CloseHelp

NextKeys == KeyPress \/ KeyRelease \/ On

NextUnsub == OnUnsub \/ Off \/ InputPointerDown \/ InputPointerUp \/ InputKeyDown

NextGallery ==
  \/ LoadFromStorage
  \/ SaveCurrentPose
  \/ RenameSelected
  \/ DeleteSelected
  \/ ClearAll
  \/ CardClick

NextPresets ==
  \/ PoseJoint
  \/ SetSelection
  \/ ClearSelection
  \/ ToggleOutline
  \/ PresetRender
  \/ PresetCardClick
  \/ PresetApplyButton

(***************************************************************************)
(* The render loop (engine/loop.js createLoop)                             *)
(***************************************************************************)
\* The number of requestAnimationFrame calls of a run
MaxRequests == 10

notLoop == <<modesVars, worldVars, callVars, galleryVars, selVars, uiVars, impVars, inputVars, stateVars>>

\* running and raf are the closure's variables; pending is the set of
\* request ids whose callback the browser still holds, n the last id it
\* gave out; frames counts the frames rendered, threw says the last call
\* ended in an exception
InitLoop ==
  loop = [running |-> FALSE, raf |-> 0, pending |-> {}, n |-> 0, frames |-> 0,
          threw |-> FALSE]

\* raf = requestAnimationFrame(frame): a new non-zero id, callback held
requestAnimationFrame(l) ==
  [l EXCEPT !.n = @ + 1, !.raf = l.n + 1, !.pending = @ \cup {l.n + 1}]

\* cancelAnimationFrame(id): drops the callback if held, no effect otherwise
cancelAnimationFrame(l, id) == [l EXCEPT !.pending = @ \ {id}]

\* start()
startUnguarded(l) ==
  requestAnimationFrame([l EXCEPT !.running = TRUE, !.threw = FALSE])
start(l) ==
  IF l.running THEN [l EXCEPT !.threw = FALSE]
  ELSE requestAnimationFrame([l EXCEPT !.running = TRUE, !.threw = FALSE])

\* stop()
stop(l) ==
  LET l1 == [l EXCEPT !.running = FALSE, !.threw = FALSE]
      l2 == IF l1.raf # 0 THEN cancelAnimationFrame(l1, l1.raf) ELSE l1
  IN [l2 EXCEPT !.raf = 0]

\* What the perf hook does with the loop (its exceptions are caught)
HookInputs == {"none", "stop", "start", "restart"}
perfHook(l, h) ==
  CASE h = "none" -> l
    [] h = "stop" -> stop(l)
    [] h = "start" -> start(l)
    [] h = "restart" -> start(stop(l))

\* frame(): renderThrows says renderer.render raised, which ends the frame
frame(l, renderThrows, h) ==
  IF ~l.running THEN [l EXCEPT !.threw = FALSE]
  ELSE LET l1 == requestAnimationFrame([l EXCEPT !.threw = FALSE])
       IN IF renderThrows THEN [l1 EXCEPT !.threw = TRUE]
          ELSE perfHook([l1 EXCEPT !.frames = @ + 1], h)

LoopStart ==
  /\ loop.n < MaxRequests
  /\ loop' = start(loop)
  /\ NoToast
  /\ UNCHANGED notLoop

LoopStop ==
  /\ loop' = stop(loop)
  /\ NoToast
  /\ UNCHANGED notLoop

\* The browser runs a callback it holds
LoopFrame ==
  \E id \in loop.pending, renderThrows \in BOOLEAN, h \in HookInputs :
    /\ loop.n + 1 < MaxRequests
    /\ loop' = frame([loop EXCEPT !.pending = @ \ {id}], renderThrows, h)
    /\ NoToast
    /\ UNCHANGED notLoop

NextLoop == LoopStart \/ LoopStop \/ LoopFrame

InitBase ==
  /\ InitModes /\ InitToast /\ InitWorld /\ InitCall /\ InitSel /\ InitImport /\ InitInput
  /\ InitShared /\ InitLoop

Init == InitBase /\ InitGallery({Stored("none", <<>>)})

\* A run that starts with any of the storage contents
InitStored == InitBase /\ InitGallery(StorageInputs)

\* A PresetsUI built with no selectedId whose buttons are hooked: it has not
\* rendered yet, or has no container to render into
InitPresetsUI ==
  /\ InitModes /\ InitToast /\ InitWorld /\ InitCall /\ InitImport /\ InitInput
  /\ InitShared /\ InitLoop
  /\ InitGallery({Stored("none", <<>>)})
  /\ selected = NoRef /\ attached = NoRef /\ outlineVisible = FALSE
  /\ nameField = PlainName("None")
  /\ showOutline = TRUE /\ helpOpen = FALSE
  /\ presetSel = 0

SpecModes == Init /\ [][NextModes]_vars

SpecWorld == Init /\ [][NextWorld]_vars

SpecPose == Init /\ [][NextPose]_vars

SpecPick == Init /\ [][NextPick]_vars

SpecLockstep == Init /\ [][NextLockstep]_vars

SpecRebuild == Init /\ [][NextRebuild]_vars

SpecGallery == InitStored /\ [][NextGallery]_vars

\* A run that starts with nothing stored, or with an array whose first item
\* has id, pose and thumb and no name (written by hand or by another
\* version)
NamelessStored ==
  {Stored("none", <<>>),
   Stored("array", <<[OldItem(2) EXCEPT !.name = NoName], OldItem(1)>>)}

InitNameless == InitBase /\ InitGallery(NamelessStored)

SpecNames == InitNameless /\ [][NextGallery]_vars

\* A gallery built with or without a container element, over any of the
\* storage contents
InitBare ==
  /\ InitModes /\ InitToast /\ InitWorld /\ InitCall /\ InitSel /\ InitImport /\ InitInput
  /\ InitShared /\ InitLoop
  /\ items = <<>>
  /\ selectedId = 0
  /\ storage \in StorageInputs
  /\ clock = StartClock
  /\ saves = 0
  /\ containerEl \in BOOLEAN

SpecBare == InitBare /\ [][NextGallery]_vars

SpecImport == Init /\ [][NextImport]_vars

SpecInterleave == Init /\ [][NextInterleave]_vars

SpecLoop == Init /\ [][NextLoop]_vars

SpecUnsub == Init /\ [][NextUnsub]_vars

SpecKeys == Init /\ [][NextKeys]_vars

SpecShared == Init /\ [][NextShared]_vars

\* The application after boot: gallery.loadFromStorage() has run
InitApp ==
  /\ InitBase
  /\ \E st \in {Stored("none", <<>>), Stored("array", OldItems(1))} :
       /\ storage = st
       /\ items = loadFromStorage([items |-> <<>>, selectedId |-> 0, storage |-> st,
                                  containerEl |-> TRUE]).items
  /\ selectedId = 0
  /\ clock = StartClock
  /\ saves = 0
  /\ containerEl = TRUE

SpecApp == InitApp /\ [][NextApp]_vars

SpecSelect == Init /\ [][NextSelect]_vars

SpecInput == Init /\ [][NextInput]_vars

SpecPresets == InitPresetsUI /\ [][NextPresets]_vars

(***************************************************************************)
(* Claims about ModesController                                            *)
(***************************************************************************)

\* C1: in every reachable state of ModesController the orbit camera is
\* enabled if and only if mode = orbit and no gizmo drag is active.
C1_OrbitIffOrbitModeAndNotDragging ==
  orbitEnabled <=> (mode = "orbit" /\ ~dragging)

\* C10: after every ModesController transition the transform gizmo is
\* enabled iff mode # orbit, and its sub-mode is translate when mode = move
\* and rotate otherwise.
C10_GizmoFollowsMode ==
  /\ gizmoEnabled <=> (mode # "orbit")
  /\ (mode = "move") => gizmoMode = "translate"
  /\ (mode # "move") => gizmoMode = "rotate"

\* C10 witness: setMode("orbit") has run and disabled the gizmo.
C10_Witness ==
  /\ mode = "orbit"
  /\ lastToast = "Orbit mode"
  /\ ~gizmoEnabled
  /\ gizmoMode = "rotate"

(***************************************************************************)
(* Claims about the world's props                                          *)
(***************************************************************************)
PropNodesInScene == {i \in scene : node[i].isProp}

\* C3: for every sequence of addProp / registerProp / removeProp calls,
\* world.props.length equals the number of prop nodes attached to the scene.
C3_PropsLengthEqualsSceneProps ==
  Len(props) = Cardinality(PropNodesInScene)

(***************************************************************************)
(* Pose round trip, partial apply, reset (poses/pose-io.js)                *)
(***************************************************************************)
\* C4: applyPose(serializePose(world)) with nothing in between leaves every
\* joint quaternion as it was and yields as many props as before, in the
\* same order, each with the position, quaternion and scale it had.
C4_RoundTrip ==
  lastOp = "roundTrip" =>
    /\ jointQ = before.jointQ
    /\ Len(props) = Len(before.props)
    /\ \A i \in 1..Len(props) :
         /\ node[props[i]].position = before.node[before.props[i]].position
         /\ node[props[i]].quaternion = before.node[before.props[i]].quaternion
         /\ node[props[i]].scale = before.node[before.props[i]].scale

\* A round trip of a posed character with two props that differ: a scaled
\* and rotated first prop, and a ring (tilted when created) second.
C4_Witness ==
  /\ lastOp = "roundTrip"
  /\ jointQ[JointOrder[1]] = QA
  /\ Len(props) = 2
  /\ node[props[1]].scale = S2 /\ node[props[1]].quaternion = QA
  /\ before.node[before.props[2]].type = "ring"
  /\ node[props[2]].type = "sphere" /\ node[props[2]].quaternion = QTilt
  /\ node[props[2]].scale = S1

\* C5: after applyPose(data) every world joint whose name has a length-4
\* array in data.joints has that quaternion, every other world joint keeps
\* the rotation it had, and entries naming no world joint change nothing.
C5_PartialApply ==
  lastOp = "applyPose" =>
    /\ DOMAIN jointQ = JointNames
    /\ \A nm \in JointNames :
         IF arg.hasJoints /\ nm \in DOMAIN arg.joints
            /\ arg.joints[nm].arr /\ Len(arg.joints[nm].v) = 4
         THEN jointQ[nm] = <<arg.joints[nm].v[1], arg.joints[nm].v[2],
                             arg.joints[nm].v[3], arg.joints[nm].v[4]>>
         ELSE jointQ[nm] = before.jointQ[nm]

\* A document with a valid entry for the first joint, a 3-element entry for
\* another rotated joint and an entry for a name that is no joint.
C5_Witness ==
  /\ lastOp = "applyPose"
  /\ DOMAIN arg.joints = DocNames
  /\ arg.joints[JointOrder[1]] = Arr(QB) /\ before.jointQ[JointOrder[1]] = QA
  /\ jointQ[JointOrder[1]] = QB
  /\ arg.joints[JointOrder[MaxPosed]] = Arr(<<0, 0, 1>>)
  /\ before.jointQ[JointOrder[MaxPosed]] = QA /\ jointQ[JointOrder[MaxPosed]] = QA

RECURSIVE FirstMatch(_, _, _)
FirstMatch(w, o, hit) ==
  IF o = NoRef THEN hit
  ELSE IF IsJoint(Parent(w, o)) THEN Parent(w, o)
  ELSE IF IsProp(w, o) THEN o
  ELSE FirstMatch(w, Parent(w, o), hit)

\* C9: pickFromPointer returns null when the ray hits nothing; otherwise it
\* returns the first match up the ancestors of the nearest hit, the raw hit
\* only when there is none; a hit on a limb mesh gives the enclosing joint.
C9_PickResolves ==
  lastOp = "pick" =>
    /\ arg = NoRef => ret = NoRef
    /\ arg # NoRef => ret = FirstMatch(before, arg, arg)
    /\ arg.k = "mesh" => ret = JointRef(arg.j)

(***************************************************************************)
(* Gallery capacity and order (gallery/Gallery.js)                         *)
(***************************************************************************)
NewestFirst ==
  \A i \in 1..Len(items) : \A j \in i..Len(items) : items[i].createdAt >= items[j].createdAt

\* A step that created an item: it is at index 1, the items before follow
\* in their order, and the last one is dropped when the gallery was full.
SavePutsFirst ==
  saves' = saves + 1 =>
    /\ items'[1].id = uid(saves) /\ items'[1].createdAt = clock'
    /\ Len(items') = IF Len(items) < maxItems THEN Len(items) + 1 ELSE maxItems
    /\ \A k \in 2..Len(items') : items'[k] = items[k - 1]

\* C7: after any sequence of loadFromStorage, saveCurrentPoseToGallery,
\* renameSelected, deleteSelected and clearAll the gallery holds at most
\* maxItems items, newest first by creation time; each save puts the new
\* item at index 0 and drops the oldest when the gallery is full.
C7_CapacityNewestFirst ==
  /\ [](Len(items) <= maxItems /\ NewestFirst)
  /\ [][SavePutsFirst]_vars

\* A full gallery after a save: the item of the latest save is first and
\* strictly newer than the stored item now last, and the items that storage
\* held behind that one are gone.
C7_Witness ==
  /\ Len(items) = maxItems
  /\ saves >= 1
  /\ items[1].id = uid(saves - 1)
  /\ items[maxItems] = OldItem(maxItems + 1)
  /\ items[1].createdAt > items[maxItems].createdAt

\* A file that is read, parsed and applied: named *.json, readable, JSON,
\* and a document applyPose accepts.
ImportsWell(f) ==
  IsJsonName(f) /\ f.readOk /\ f.text.kind = "json" /\ f.text.v.obj

\* C8: for every list of files importPosePack settles without raising; the
\* files not named *.json are skipped, every file named *.json whose read,
\* parse or apply fails is logged and skipped with the files after it still
\* processed, and the count returned is the number of files parsed and
\* applied (0 when there is none).
C8_BestEffortCount ==
  imp.pc = "done" =>
    /\ imp.ret = <<Cardinality({j \in DOMAIN imp.files : ImportsWell(imp.files[j])})>>
    /\ imp.warns = Cardinality({j \in DOMAIN imp.files :
                                  IsJsonName(imp.files[j]) /\ ~ImportsWell(imp.files[j])})

\* C2: in the assembled app the selection is empty, a joint of world.joints,
\* or a prop that is a member of world.props; a selected node that gets
\* removed is not left selected.
C2_SelectionIsLive ==
  \/ selected = NoRef
  \/ selected.k = "joint" /\ selected.j \in JointNames
  \/ selected.k = "prop" /\ selected.p \in Range(props)

\* C11: after every ModesController transition the gizmo's rotation snap is
\* the snap angle in radians if and only if the mode is rotate and the snap
\* angle is greater than 0; in move mode, in orbit mode or with a snap angle
\* of 0 or less it is disabled (null).
C11_SnapOnlyInRotate ==
  /\ (mode = "rotate" /\ snapDeg > 0) => rotationSnap = <<degToRad(snapDeg)>>
  /\ (mode # "rotate" \/ snapDeg <= 0) => rotationSnap = <<>>

\* Move mode with a positive snap angle set by setSnapDeg: snapping is off.
C11_Witness ==
  mode = "move" /\ snapDeg = 5 /\ rotationSnap = <<>>

\* C12: toggleAxis(axis) flips exactly the named axis boolean and leaves the
\* other two, the mode and the snap angle unchanged; afterwards the gizmo's
\* per-axis visibility equals the three booleans and the rotation snap is
\* what it was; a key other than x, y, z changes nothing.
C12_ToggleAxisFrame ==
  [][\A k \in AxisInputs :
       (toggleAxis(k) /\ UNCHANGED notModes) =>
         /\ \A a \in AxisKeys : axis'[a] = IF a = k THEN ~axis[a] ELSE axis[a]
         /\ mode' = mode /\ snapDeg' = snapDeg
         /\ gizmoShow' = axis'
         /\ rotationSnap' = rotationSnap
         /\ (k \notin AxisKeys => UNCHANGED modesVars)]_vars

\* Scenario E: x toggled off in rotate mode with snap 10.
C12_Witness ==
  /\ mode = "rotate" /\ snapDeg = 10
  /\ ~axis["x"] /\ axis["y"] /\ axis["z"]
  /\ ~gizmoShow["x"] /\ gizmoShow["y"] /\ gizmoShow["z"]
  /\ rotationSnap = <<degToRad(10)>>

\* C13: setSnapDeg(value) with a value that does not coerce to a finite
\* number is rejected: the snap angle and the gizmo's rotation snap keep the
\* values they had before the call.
C13_NonFiniteRejected ==
  [][(setSnapDeg(NotFinite) /\ UNCHANGED notModes) =>
       (snapDeg' = snapDeg /\ rotationSnap' = rotationSnap)]_vars

\* C14: the mode starts as rotate and is always one of rotate, move, orbit;
\* setMode with any other value changes nothing and notifies nobody;
\* handleShortcut maps "1", "2", "3" to rotate, move, orbit and does nothing
\* for every other key.
C14_ModeIsValid ==
  /\ mode = "rotate"
  /\ [](mode \in Modes)
  /\ [][\A m \in ModeInputs \ Modes :
          (setMode(m) /\ UNCHANGED notModes) => (UNCHANGED modesVars /\ toastN' = 0)]_vars
  /\ [][\A k \in ShortcutInputs :
          (handleShortcut(k) /\ UNCHANGED notModes) =>
            /\ k = "1" => mode' = "rotate"
            /\ k = "2" => mode' = "move"
            /\ k = "3" => mode' = "orbit"
            /\ k \notin {"1", "2", "3"} => (UNCHANGED modesVars /\ toastN' = 0)]_vars

\* Orbit mode reached from move mode, the last call notified "Orbit mode".
C14_Witness ==
  mode = "orbit" /\ orbitEnabled /\ ~gizmoEnabled /\ gizmoMode = "rotate" /\ toastN = 1

\* The node a pointer-down on the mesh `hit` selects: the joint that carries
\* a limb mesh, the prop group that holds a prop mesh.
HitOwner(hit) ==
  IF hit.k = "mesh" THEN JointRef(hit.j) ELSE PropRef(hit.p)

\* C15: onPointerDown changes nothing (selection, gizmo attachment, outline,
\* name field, notifications) when the mode is orbit or the help modal is
\* open; in the other modes a pointer-down that hits nothing leaves the
\* selection as it was, and a hit replaces it.
C15_PointerDownFrame ==
  [][\A hit \in PointerHits(World) :
       PointerDownWith(hit) =>
         IF mode = "orbit" \/ helpOpen THEN UNCHANGED selVars /\ toastN' = 0
         ELSE IF hit = NoRef THEN UNCHANGED selVars /\ toastN' = 0
         ELSE selected' = HitOwner(hit) /\ attached' = HitOwner(hit) /\ toastN' = 1]_vars

\* Orbit mode with a joint selected, the last handler having notified nothing.
C15_Witness ==
  /\ mode = "orbit" /\ ~helpOpen
  /\ selected.k = "joint"
  /\ toastN = 0

\* C19: the gizmo is attached if and only if the selection is non-empty,
\* the attached node is the selected node, and the selection-name field
\* shows the node's name, "(unnamed)" for a nameless node, "None" when
\* nothing is selected.
C19_GizmoAndNameFollowSelection ==
  /\ attached = selected
  /\ (attached # NoRef) <=> (selected # NoRef)
  /\ nameField =
       CASE selected = NoRef -> PlainName("None")
         [] selected.k = "joint" -> PlainName(selected.j)
         [] selected.k = "prop" /\ NameTruthy(node[selected.p].name) -> node[selected.p].name
         [] OTHER -> PlainName("(unnamed)")

\* A prop's mesh, which has no name, is selected.
C19_Witness ==
  /\ selected.k = "propmesh"
  /\ attached = selected
  /\ nameField = PlainName("(unnamed)")

\* C20: the outline is visible if and only if the show-outline flag is true
\* and a node is selected.
C20_OutlineIffShownAndSelected ==
  outlineVisible <=> (showOutline /\ selected # NoRef)

\* A node is selected with the outline switched off.
C20_Witness ==
  selected # NoRef /\ ~showOutline /\ ~outlineVisible /\ attached = selected

\* The listeners subscribed to an event type, in subscription order
SubscribedIds(m, type) == [i \in 1..Len(m.handlers[type]) |-> m.handlers[type][i].id]

\* C16: a pointer-down that arrives while the modal is open is delivered to
\* no listener and leaves the pointer state (position, isDown, button,
\* pointerId) as it was; with the modal closed every pointer-down listener
\* receives the event.
C16_PointerDownGate ==
  [][\A e \in PointerEvents :
       InputPointerDownWith(e) =>
         IF helpOpen
         THEN /\ inp'.ev = "none" /\ inp'.got = <<>>
              /\ inp'.clientX = inp.clientX /\ inp'.clientY = inp.clientY
              /\ inp'.isDown = inp.isDown /\ inp'.button = inp.button
              /\ inp'.pointerId = inp.pointerId
         ELSE /\ inp'.ev = "pointerdown"
              /\ inp'.got = SubscribedIds(inp, "pointerdown")]_vars

\* The modal is open, a pointer-down listener is subscribed, the last
\* handler dispatched nothing and the pointer state is that of an earlier
\* pointer-down.
C16_Witness ==
  /\ helpOpen
  /\ Len(inp.handlers["pointerdown"]) > 0
  /\ inp.ev = "none"
  /\ inp.isDown /\ inp.clientX = 3 /\ inp.button = 0 /\ inp.pointerId = 1

\* C17: when a listener throws during a dispatch the exception does not
\* reach the dispatcher's caller, and every listener subscribed to the event
\* type receives the event, in subscription order.
C17_ListenerThrowIsContained ==
  /\ ~inp.escaped
  /\ inp.ev # "none" => inp.got = SubscribedIds(inp, inp.ev)

\* A key-down went to the throwing listener first and then to the other one.
C17_Witness ==
  /\ inp.ev = "keydown"
  /\ inp.handlers["keydown"] = <<Listener(2, TRUE), Listener(1, FALSE)>>
  /\ inp.got = <<2, 1>>

\* C18: on window blur, whatever keys and pointer buttons were down, the
\* pressed-key set ends empty and pointer isDown false, and the blur
\* listeners are notified.
C18_BlurClears ==
  [][InputBlur =>
       /\ inp'.keys = {}
       /\ ~inp'.isDown
       /\ inp'.ev = "blur"
       /\ inp'.got = SubscribedIds(inp, "blur")]_vars

\* A blur was delivered to a listener after the second pointer was pressed.
C18_Witness ==
  /\ inp.ev = "blur" /\ Len(inp.got) > 0
  /\ inp.keys = {} /\ ~inp.isDown /\ inp.pointerId = 0
  /\ inp.button = 2 /\ inp.clientX = 5

\* C21: an Escape key press with the help modal open closes the modal and
\* leaves the selection as it was; with no modal open it clears the
\* selection; the SelectionController's own key handler does not touch the
\* selection while the modal is open.  One press never does both.
C21_EscapeClosesOrClears ==
  [][/\ EscapeKey =>
          IF helpOpen
          THEN ~helpOpen' /\ UNCHANGED selVars
          ELSE /\ selected' = NoRef /\ attached' = NoRef /\ ~outlineVisible'
               /\ helpOpen' = helpOpen
     /\ SelectionKeyDownWith("Escape") =>
          /\ helpOpen' = helpOpen
          /\ IF helpOpen THEN UNCHANGED selVars ELSE selected' = NoRef]_vars

\* The modal has just been closed and a node is still selected.
C21_Witness ==
  /\ ~helpOpen
  /\ lastToast = "Help closed"
  /\ selected # NoRef /\ attached = selected

\* C22: under every world operation (add, remove, clearProps, resetWorld,
\* the prop rebuild of applyPose) a node is a member of world.props if and
\* only if it is attached to the scene.
C22_MembershipIffInScene ==
  Range(props) = PropNodesInScene

\* C23: every prop created by createPropGroup carries the isProp marker and
\* a type tag out of the 13 enumerated types (a type argument outside the
\* enumeration giving the tag cube).
C23_TypeTagInEnumeration ==
  \A i \in Range(props) : node[i].isProp /\ node[i].type \in PROP_TYPES

\* The prop at index i of world.props carries what the entry pd gives
CarriesEntry(i, pd) ==
  \/ pd.nul
  \/ /\ pd.position # <<>> => node[props[i]].position = pd.position[1]
     /\ pd.quaternion # <<>> => node[props[i]].quaternion = pd.quaternion[1]
     /\ pd.scale # <<>> => node[props[i]].scale = pd.scale[1]
     /\ NameTruthy(pd.name) => node[props[i]].name = pd.name

\* C24: after applyPose, called on an object document with the application's
\* collaborators, a props array in the document means that none of the
\* previous props is in world.props or in the scene and that world.props
\* holds exactly one new prop per document entry, in document order, each
\* with the entry's position, quaternion, scale and name; without a props
\* array the props are as they were.
C24_DestructiveRebuild ==
  (lastOp \in {"applyPose", "applyPose:throw"} /\ arg.obj /\ argDeps = AppDeps) =>
    IF arg.hasProps
    THEN /\ Range(before.props) \cap (Range(props) \cup scene) = {}
         /\ Len(props) = Len(arg.props)
         /\ \A i \in 1..Len(props) : i <= Len(arg.props) => CarriesEntry(i, arg.props[i])
    ELSE /\ props = before.props
         /\ scene = before.scene
         /\ \A i \in Range(props) : node[i] = before.node[i]

\* The world is as the last pose operation found it
WorldAsBefore ==
  /\ jointQ = before.jointQ /\ joints = before.joints
  /\ props = before.props /\ scene = before.scene /\ node = before.node

\* C25: applyPose throws when data is not an object or when the world or the
\* scene collaborator is missing, applyPoseJointsOnly throws when data has
\* no joints map, and in each of these cases no joint rotation and no prop
\* has been changed.
C25_InvalidCallThrowsUnchanged ==
  /\ (lastOp \in {"applyPose", "applyPose:throw"}
        /\ (~arg.obj \/ ~argDeps.world \/ ~argDeps.scene))
       => (lastOp = "applyPose:throw" /\ WorldAsBefore)
  /\ (lastOp \in {"applyPoseJointsOnly", "applyPoseJointsOnly:throw"}
        /\ (~arg.obj \/ ~arg.hasJoints))
       => (lastOp = "applyPoseJointsOnly:throw" /\ WorldAsBefore)

\* applyPose was called without the scene on a posed world with a prop, with
\* a document that names a joint and carries a props array.
C25_Witness ==
  /\ lastOp = "applyPose:throw"
  /\ arg.obj /\ argDeps.world /\ ~argDeps.scene
  /\ arg.hasJoints /\ JointOrder[1] \in DOMAIN arg.joints /\ arg.hasProps
  /\ before.jointQ[JointOrder[1]] = QA /\ jointQ[JointOrder[1]] = QA
  /\ Len(before.props) > 0 /\ props = before.props

\* C26: every call of importPosePack that is given the render and the
\* notification collaborators ends having rendered the gallery view once
\* and with one summary notification as the last one sent: "Imported N
\* poses" when at least one file was imported, "No valid poses imported"
\* otherwise; for every file list, the empty one included.
C26_RenderAndSummaryOnce ==
  (imp.pc = "done" /\ imp.deps.renderGallery /\ imp.deps.showToast) =>
    /\ imp.renders = 1
    /\ toastN >= 1
    /\ lastToast = SummaryToast(imp.imported)

\* C27: saveCurrentPoseToGallery, when the serializePose or captureThumbnail
\* collaborator is absent or the capture returns nothing, leaves the item
\* list, the selected id and storage unchanged and sends one notification
\* naming the failure; a storage write that fails during a save is reported
\* by notification and the save runs to its end (the item is in the list and
\* selected, the closing notification is sent): nothing is thrown.
C27_SaveFailsLocally ==
  [][\A in \in SaveInputs, now \in {clock, clock + 1} :
       SaveCurrentPoseWith(in, now) =>
         /\ ~in[1].serializePose =>
              /\ UNCHANGED <<items, selectedId, storage>>
              /\ toastN' = 1 /\ lastToast' = "Gallery: serializePose() missing"
         /\ (in[1].serializePose /\ ~in[1].captureThumbnail) =>
              /\ UNCHANGED <<items, selectedId, storage>>
              /\ toastN' = 1 /\ lastToast' = "Gallery: captureThumbnail() missing"
         /\ (in[1] = AppGalleryDeps /\ ~in[4]) =>
              /\ UNCHANGED <<items, selectedId, storage>>
              /\ toastN' = 1 /\ lastToast' = "Thumbnail capture failed"
         /\ (in[1] = AppGalleryDeps /\ in[4] /\ ~in[5]) =>
              /\ storage' = storage
              /\ items'[1].id = uid(saves) /\ selectedId' = uid(saves)
              /\ toastN' = (IF in[3] THEN 2 ELSE 1)
              /\ lastToast' = (IF in[3] THEN "Saved to gallery"
                               ELSE "Gallery save failed (storage full?)")]_vars

\* A save whose storage write failed: two notifications, the new item first
\* in the list and selected, storage without it.
C27_Witness ==
  /\ toastN = 2 /\ lastToast = "Saved to gallery"
  /\ Len(items) >= 1 /\ selectedId = items[1].id
  /\ storage # stringify(items)

StoredValid == {j \in 1..Len(storage.v) : /\ storage.v[j].obj
                                          /\ storage.v[j].id # 0
                                          /\ storage.v[j].pose # <<>>
                                          /\ storage.v[j].thumb # ""}
KthValid(k) == CHOOSE j \in StoredValid : Cardinality({m \in StoredValid : m < j}) = k - 1

\* C29: loadFromStorage, whatever is stored, gives an empty list for an
\* unparsable text and for a value that is no array, otherwise the stored
\* items that have id, pose and thumb, in stored order, cut to the capacity
\* from the front; a selected id that matches no loaded item is cleared;
\* storage is left as it is.
C29_LoadIsDefensive ==
  [][LoadFromStorage =>
       /\ storage' = storage
       /\ storage.kind # "array" => items' = <<>>
       /\ storage.kind = "array" =>
            /\ Len(items') = (IF Cardinality(StoredValid) > maxItems THEN maxItems
                              ELSE Cardinality(StoredValid))
            /\ \A i \in 1..Len(items') : items'[i] = storage.v[KthValid(i)]
       /\ \A i \in 1..Len(items') :
            items'[i].id # 0 /\ items'[i].pose # <<>> /\ items'[i].thumb # ""
       /\ selectedId' = (IF HasId(items', selectedId) THEN selectedId ELSE 0)]_vars

\* Loaded from an array of six entries of which the second and the last are
\* the only ones with id, pose and thumb.
C29_Witness ==
  /\ storage.kind = "array" /\ Len(storage.v) = 6 /\ storage.v[1] = NullItem
  /\ items = <<OldItem(2), OldItem(1)>>

\* C30: a press on the preset Apply button with no preset selected applies
\* no preset (every joint rotation stays) and sends "Select a preset
\* first"; with a preset selected it applies exactly that preset.
C30_ApplyNeedsSelection ==
  [][PresetApplyButton =>
       IF presetSel = 0
       THEN /\ jointQ' = jointQ
            /\ presetSel' = 0
            /\ lastToast' = "Select a preset first"
       ELSE /\ presetSel' = presetSel
            /\ jointQ' = [nm \in JointNames |->
                            fromArray(JointEntry(createPresets[presetSel].pose, nm))]
            /\ lastToast' = "Preset applied: " \o createPresets[presetSel].name]_vars

\* C31: in every reachable gallery state every item has a non-empty name:
\* after saves with a blank name, after renames with blank input and after
\* loadFromStorage of any stored content.
C31_ItemsAreNamed ==
  \A i \in 1..Len(items) : NameTruthy(items[i].name)

\* C32: handlers run only while importPosePack is suspended on a read: the
\* step from one read to the next applies the file and saves it with no
\* handler in between, so the item saved for a file holds the world as it
\* was right after applying that file (to the world the handlers left), and
\* the files are taken strictly in list order.
C32_SavedAsApplied ==
  [][ImportResume =>
       LET f == imp.files[imp.i]
           saved == Len(items') > 0 /\ ~HasId(items, items'[1].id)
       IN /\ saved =>
               /\ ImportsWell(f)
               /\ World' = applyPose(JSONparse(f.text)[1], AppDeps, World, HeldIds, V0).w
               /\ items'[1].pose = <<serializePose(World', clock')>>
          /\ imp'.pc \in {"reading", "done"}
          /\ imp'.pc = "reading" => imp'.i > imp.i
          /\ \A j \in (imp.i + 1)..Len(imp.files) :
               (imp'.pc = "done" \/ j < imp'.i) => ~IsJsonName(imp.files[j])]_vars

\* Two files imported by one call, with a joint posed by a handler while
\* the second file was being read
C32_Witness ==
  /\ imp.pc = "done"
  /\ imp.imported = 2
  /\ Len(items) = 2
  /\ items[1].pose[1].joints[JointOrder[2]] # items[2].pose[1].joints[JointOrder[2]]

\* C33: for every interleaving of start(), stop() and frame callbacks at
\* most one frame callback is pending; after stop() none is pending and
\* isRunning() is false; start() while running schedules no second frame;
\* stop() never throws, also when the loop was never started or is stopped.
C33_OneFramePending ==
  [][/\ Cardinality(loop'.pending) <= 1
     /\ loop'.pending = (IF loop'.running THEN {loop'.raf} ELSE {})
     /\ LoopStop => ~loop'.running /\ loop'.pending = {} /\ ~loop'.threw
     /\ (LoopStart /\ loop.running) => loop'.pending = loop.pending]_vars

\* The loop was stopped, started again and has rendered since, and one
\* callback is pending
C33_Witness ==
  /\ loop.running
  /\ loop.frames >= 2
  /\ loop.n > loop.frames + 1
  /\ loop.pending = {loop.raf}

\* C34: in the assembled app, after every mode, axis-lock or snap change
\* made through the mode buttons, the axis chips, the snap selector or the
\* 1/2/3 shortcuts, the shared STATE (mode, axis, snapDeg) equals
\* ModesController.state, so the selection gate and both drag listeners see
\* the current mode.
C34_SharedStateInSync ==
  State = [mode |-> mode, axis |-> axis, snapDeg |-> snapDeg]

\* Mode, an axis lock and the snap step have all been changed
C34_Witness ==
  /\ State.mode = "orbit"
  /\ ~State.axis["y"]
  /\ State.snapDeg = 5
  /\ ~dragging

\* C35: when a listener unsubscribes itself or another listener while the
\* InputManager dispatches an event, every listener that stays subscribed
\* still receives that event exactly once.
C35_StayingListenersReceive ==
  inp.ev # "none" =>
    \A k \in 1..Len(inp.handlers[inp.ev]) :
      Cardinality({j \in 1..Len(inp.got) : inp.got[j] = inp.handlers[inp.ev][k].id}) = 1

\* C36: the pressed-key set is empty whenever every key that went down has
\* come up again, also when the key string of the key-up differs in letter
\* case from that of the key-down (Shift pressed or released in between).
C36_NoKeyLeftBehind ==
  inp.down = {} => inp.keys = {}

\* C37: in every reachable gallery state (capacity at least 1) selectedId
\* is null or the id of an item currently in items: after loadFromStorage,
\* save, card click, rename, delete and clearAll, also when the gallery has
\* no container element to render into.
C37_SelectionIsAnItem ==
  maxItems >= 1 => (selectedId = 0 \/ HasId(items, selectedId))

\* A gallery without a container that holds items, the selected one among
\* them, after a save pushed the oldest item out
C37_Witness ==
  /\ ~containerEl
  /\ Len(items) = maxItems
  /\ saves >= 1
  /\ items[1].id = uid(saves - 1)
  /\ items[2] = OldItem(maxItems + 1)
  /\ selectedId = items[1].id

\* C38: applyPose is all-or-nothing: whenever it throws, also for a document
\* that passes the shape check and whose props array holds a malformed
\* entry (null), the joint rotations and world.props with their scene
\* attachment are exactly as before the call.
C38_ThrowChangesNothing ==
  lastOp = "applyPose:throw" => WorldAsBefore

\* C39: the count importPosePack returns and announces equals the number of
\* gallery items the import added, for every file list and every outcome of
\* the per-file gallery save (a save that fails softly because the
\* thumbnail capture gives nothing included).
C39_CountIsItemsAdded ==
  (imp.pc = "done" /\ Len(imp.files) > 0) =>
    /\ imp.ret = <<saves>>
    /\ imp.deps.showToast => lastToast = SummaryToast(saves)

\* C40: in the assembled app applying a built-in preset is deterministic
\* and idempotent: every built-in preset names all 12 joints of the built
\* character, so whatever the pose before, the joint rotations after are
\* the preset's entries, applying the same preset again changes nothing,
\* and the preset list is never modified.
C40_PresetDeterminesPose ==
  [][\A k \in 1..Len(createPresets) :
       ApplyPreset(k) =>
         LET js == createPresets[k].pose.joints
         IN /\ DOMAIN js = JointNames
            /\ Range(joints) = JointNames
            /\ jointQ' = [n \in JointNames |-> fromArray(js[n])]
            /\ applyPoseJointsOnly(createPresets[k].pose, AppDeps, World').w = World']_vars

\* The first preset has been applied: the root and the hips, which the
\* user poses, are at rest as the preset says, the neck is the preset's
C40_Witness ==
  /\ presetSel = 1
  /\ lastToast = "Preset applied: Relaxed"
  /\ jointQ["neck"] = <<48, 10, -1, 999>>
  /\ jointQ["r_elbow"] = <<-257, 44, 9, 965>>
  /\ \A n \in PosedJoints : jointQ[n] = QId
====
